---- MODULE Spec2Model ----
(***************************************************************************)
(* Chat-Book: the real-time presence and message-delivery core.            *)
(*                                                                         *)
(* The server (routes.ts, here src/unnamed/part_000) keeps one in-memory   *)
(* registry, connectedUsers, and talks to a durable store (src/storage.ts) *)
(* through awaited calls.  Every `await` of a handler is a point where     *)
(* other handlers run, so a handler is modelled as a task that is created  *)
(* by the synchronous prefix of the handler, whose store statement is      *)
(* applied by a later step, and whose continuation runs in a third step.   *)
(***************************************************************************)
EXTENDS Integers, Sequences, FiniteSets, TLC

\* ------------------------------------------------------------------ bounds
\* Inbound WebSocket frames plus HTTP requests in one behaviour.
MaxEvents == 3
\* WebSocket connections accepted in one behaviour.
MaxConns == 2

\* ------------------------------------------------------------- identities
\* Rows of the users table (created by POST /api/auth/register).
Registered == {"A", "B"}
\* An identity string with no row in the users table.
Stranger == "Z"
Idents == Registered \cup {Stranger}
\* A falsy userId (undefined, null or "") in an inbound frame.
NoUser == ""
\* connectedUsers.get() of an absent key.
NoConn == 0
Conns == 1..MaxConns

\* ------------------------------------------------------------ store rows
\* The messages table (part_002 lines 40-49).  imageUrl is a nullable
\* column: {} is NULL, {u} a value.
NoRow ==
    [id |-> 0, senderId |-> "", receiverId |-> "", content |-> "",
     messageType |-> "", imageUrl |-> {}, isRead |-> FALSE, createdAt |-> 0]

\* A chat_message payload as the client sends it: messageType and imageUrl
\* may be absent ({}).
Payload(s, r, c, mt, url) ==
    [senderId |-> s, receiverId |-> r, content |-> c, messageType |-> mt,
     imageUrl |-> url]

NoData == Payload("", "", "", "", {})

\* messageSchema (part_002 lines 90-98): content is a string of 1..1000
\* characters, messageType is absent, "text" or "image", imageUrl is an
\* optional string; senderId and receiverId are strings.
ContentMax == 1000

\* A schema whose maximum content length is exclusive.
messageSchemaAccepts_ExclusiveMax(d) ==
    /\ Len(d.content) >= 1
    /\ Len(d.content) < ContentMax
    /\ d.messageType \subseteq {"text", "image"}

\* A schema whose content has no minimum length.
messageSchemaAccepts_NoMinimum(d) ==
    /\ Len(d.content) <= ContentMax
    /\ d.messageType \subseteq {"text", "image"}

messageSchemaAccepts(d) ==
    /\ Len(d.content) >= 1
    /\ Len(d.content) <= ContentMax
    /\ d.messageType \subseteq {"text", "image"}

\* The parsed value: messageType defaults to "text"; id, createdAt and
\* isRead are not part of the schema and are stripped.
messageSchemaParse(d) ==
    Payload(d.senderId, d.receiverId, d.content,
            IF d.messageType = {} THEN "text"
            ELSE CHOOSE t \in d.messageType : TRUE,
            d.imageUrl)

\* ------------------------------------------------------- the ordered map
\* connectedUsers is a JavaScript Map: iteration is in insertion order and
\* set() on a present key keeps the key's position.
MapHas(m, k) == \E i \in DOMAIN m : m[i].userId = k

MapGet(m, k) ==
    IF MapHas(m, k)
    THEN m[CHOOSE i \in DOMAIN m : m[i].userId = k].ws
    ELSE NoConn

\* A set() that adds an entry even when the key is present.
MapSet_Appends(m, k, w) == Append(m, [userId |-> k, ws |-> w])

MapSet(m, k, w) ==
    IF MapHas(m, k)
    THEN [i \in DOMAIN m |->
            IF m[i].userId = k THEN [userId |-> k, ws |-> w] ELSE m[i]]
    ELSE Append(m, [userId |-> k, ws |-> w])

\* A delete that leaves the entry in place.
MapDelete_KeepsEntry(m, k) == m

MapDelete(m, k) == SelectSeq(m, LAMBDA e : e.userId # k)

\* -------------------------------------------------------------- variables
VARIABLES
    connectedUsers,  \* the registry: ordered map userId -> connection
    readyState,      \* per connection: "CONNECTING" (not yet accepted), "OPEN", "CLOSED"
    isOnline,        \* users.is_online of each registered user
    messages,        \* the messages table, in heap (insertion) order
    now,             \* the store's clock, the source of created_at
    sessions,        \* identities for which a client holds a valid HTTP session
    tasks,           \* handlers suspended at an await
    nEvents,         \* per source (a connection; NoConn for HTTP): inbound events so far
    nConns,          \* connections accepted so far
    authed,          \* per connection: identities it has sent an auth frame for
    out,             \* what the last step sent and broadcast
    nOnline,         \* per identity: user_online broadcasts so far
    nOffline,        \* per identity: user_offline broadcasts so far
    unhandled,       \* promise rejections no handler caught
    returned,        \* the last direct storage call and what it returned
    frame,           \* the inbound frame the last step handled, if it handled one
    hook,            \* one browser's useWebSocket hook (client side)
    chat             \* one browser's Chat page: selection, query cache, list shown

vars ==
    <<connectedUsers, readyState, isOnline, messages, now, sessions, tasks,
      nEvents, nConns, authed, out, nOnline, nOffline, unhandled,
      returned, frame, hook, chat>>

\* ----------------------------------------------------------- wire frames
\* A chat_message payload that carries nothing.
NoPayload == Payload("", "", "", {}, {})

\* One client -> server frame as the 'message' handler reads it after
\* JSON.parse (part_000 line 249): type "unparseable" stands for data that
\* JSON.parse rejects or whose type no branch handles.
Frame(c, type, userId, data, isTyping) ==
    [conn |-> c, type |-> type, userId |-> userId, data |-> data,
     isTyping |-> isTyping]

NoFrame == Frame(NoConn, "", "", NoPayload, FALSE)

\* ------------------------------------------------------- the client hook
\* The state of one useWebSocket(userId) hook (part_001 lines 14-91):
\* userId is the value its connect, onopen and sendMessage closures hold;
\* mounted says whether the effect is active; state is the readyState of
\* wsRef.current ("NONE" when wsRef.current is null); ws is the server's
\* connection for that socket once the client saw it open; seen is the
\* number of connections the server had accepted when the socket was
\* created; timer says whether the reconnect timeout is pending; orphan,
\* whether a socket that disconnect() closed has not fired onclose yet;
\* sent holds the connections the hook has written an auth frame to.
UseWebSocket(userId, mounted, state, ws, seen, timer, orphan, sent) ==
    [userId |-> userId, mounted |-> mounted, state |-> state, ws |-> ws,
     seen |-> seen, timer |-> timer, orphan |-> orphan, sent |-> sent]

\* No browser has the page open.
NoHook == UseWebSocket(NoUser, FALSE, "NONE", NoConn, 0, FALSE, FALSE, {})

\* --------------------------------------------------------- the Chat page
\* The state of one rendered Chat page (Chat.tsx lines 19-60): user is the
\* logged-in user; selectedUser, the peer chosen in the sidebar (NoUser for
\* null); data, the query cache of ["/api/chat/messages", key], one record
\* per key that has been fetched; messages, the messages state of the
\* page's useWebSocket hook (part_001 line 16), which MessageArea renders
\* as it is (part_003 line 425); inflight, the new_message and message_sent
\* events the server has sent to the page's socket and that have not
\* arrived.
ChatPage(user, selectedUser, data, list, inflight) ==
    [user |-> user, selectedUser |-> selectedUser, data |-> data,
     messages |-> list, inflight |-> inflight]

\* No browser shows the page.
NoChat == ChatPage(NoUser, NoUser, {}, <<>>, <<>>)

\* ------------------------------------------------------------ wire events
\* JSON.stringify of a store row: created_at, a Date, becomes its ISO-8601
\* text; every other column keeps its value.
toISOString(t) == [iso |-> t]

JSONstringify(row) == [row EXCEPT !.createdAt = toISOString(row.createdAt)]

NoMessage == JSONstringify(NoRow)

\* One server -> client event object.  Fields an event type does not carry
\* hold their empty value.
WsEvent(type, userId, senderId, isTyping, message) ==
    [type |-> type, userId |-> userId, senderId |-> senderId,
     isTyping |-> isTyping, message |-> message]

\* ws.send(JSON.stringify(event)) on connection `to`, issued by the handler
\* of inbound event number ev of source `from`.
Send(from, ev, to, event) ==
    [eff |-> "send", from |-> from, ev |-> ev, to |-> to, event |-> event,
     body |-> <<>>]

\* The call broadcastToAll(event) itself (it may reach nobody).
Broadcast(from, ev, event) ==
    [eff |-> "broadcast", from |-> from, ev |-> ev, to |-> NoConn,
     event |-> event, body |-> <<>>]

\* A fan-out that gives up at the first entry whose socket is not OPEN.
broadcastToAll_StopsAtClosed(from, ev, event) ==
    LET reached == {i \in DOMAIN connectedUsers :
                       \A j \in 1..i : readyState[connectedUsers[j].ws] = "OPEN"}
    IN  <<Broadcast(from, ev, event)>>
        \o [i \in 1..Cardinality(reached) |->
               Send(from, ev, connectedUsers[i].ws, event)]

\* broadcastToAll (part_000 lines 332-338): every entry of connectedUsers,
\* in map order, whose socket is OPEN is sent the event.
broadcastToAll(from, ev, event) ==
    LET open == SelectSeq(connectedUsers,
                          LAMBDA e : readyState[e.ws] = "OPEN")
    IN  <<Broadcast(from, ev, event)>>
        \o [i \in DOMAIN open |-> Send(from, ev, open[i].ws, event)]

\* ------------------------------------------------------------------ store
\* An update that flips is_online instead of setting it.
updateUserOnlineStatus_Toggles(tbl, id, v) ==
    [u \in DOMAIN tbl |-> IF u = id THEN ~tbl[u] ELSE tbl[u]]

\* updateUserOnlineStatus (storage.ts lines 60-69): UPDATE users SET
\* is_online WHERE id = :id.  An id without a row updates nothing.  The
\* last_seen and updated_at columns it also sets are not modelled.
updateUserOnlineStatus(tbl, id, v) ==
    [u \in DOMAIN tbl |-> IF u = id THEN v ELSE tbl[u]]

\* An insert whose created_at column has no default.
createMessage_NoCreatedAt(tbl, message, t) ==
    [id |-> Len(tbl) + 1, senderId |-> message.senderId,
     receiverId |-> message.receiverId, content |-> message.content,
     messageType |-> message.messageType, imageUrl |-> message.imageUrl,
     isRead |-> FALSE, createdAt |-> 0]

\* createMessage (storage.ts lines 104-110): INSERT ... RETURNING.  The
\* table defaults give the row its id, is_read = false and created_at = now().
createMessage(tbl, message, t) ==
    [id |-> Len(tbl) + 1, senderId |-> message.senderId,
     receiverId |-> message.receiverId, content |-> message.content,
     messageType |-> message.messageType, imageUrl |-> message.imageUrl,
     isRead |-> FALSE, createdAt |-> t]

\* sender_id and receiver_id reference users.id (part_002 lines 42-43).
ForeignKeysHold(message) ==
    /\ message.senderId \in Registered
    /\ message.receiverId \in Registered

\* ORDER BY created_at ASC: a stable insertion sort, rows of equal
\* created_at staying in heap order.
RECURSIVE InsertByCreatedAt(_, _)
InsertByCreatedAt(sorted, row) ==
    IF sorted = <<>> THEN <<row>>
    ELSE IF sorted[Len(sorted)].createdAt <= row.createdAt
         THEN Append(sorted, row)
         ELSE Append(InsertByCreatedAt(SubSeq(sorted, 1, Len(sorted) - 1), row),
                     sorted[Len(sorted)])

RECURSIVE OrderByCreatedAtAsc(_)
OrderByCreatedAtAsc(rows) ==
    IF rows = <<>> THEN <<>>
    ELSE InsertByCreatedAt(OrderByCreatedAtAsc(SubSeq(rows, 1, Len(rows) - 1)),
                           rows[Len(rows)])

Limit(rows, n) == SubSeq(rows, 1, IF Len(rows) < n THEN Len(rows) ELSE n)

\* getMessagesBetweenUsers' default limit (storage.ts line 115).
DefaultLimit == 50

\* A where clause that matches one direction only.
Between_OneDirection(row, userId1, userId2) ==
    row.senderId = userId1 /\ row.receiverId = userId2

\* getMessagesBetweenUsers (storage.ts lines 112-128).
Between(row, userId1, userId2) ==
    \/ (row.senderId = userId1 /\ row.receiverId = userId2)
    \/ (row.senderId = userId2 /\ row.receiverId = userId1)

getMessagesBetweenUsers(tbl, userId1, userId2, limit) ==
    Limit(OrderByCreatedAtAsc(
              SelectSeq(tbl, LAMBDA row : Between(row, userId1, userId2))),
          limit)

\* An update that flips is_read on the pair's rows, read ones included.
markMessagesAsRead_Toggles(tbl, senderId, receiverId) ==
    [i \in DOMAIN tbl |->
        IF tbl[i].senderId = senderId /\ tbl[i].receiverId = receiverId
        THEN [tbl[i] EXCEPT !.isRead = ~@]
        ELSE tbl[i]]

\* An update whose where clause forgets the sender.
markMessagesAsRead_AnySender(tbl, senderId, receiverId) ==
    [i \in DOMAIN tbl |->
        IF tbl[i].receiverId = receiverId /\ tbl[i].isRead = FALSE
        THEN [tbl[i] EXCEPT !.isRead = TRUE]
        ELSE tbl[i]]

\* markMessagesAsRead (storage.ts lines 130-141).
markMessagesAsRead(tbl, senderId, receiverId) ==
    [i \in DOMAIN tbl |->
        IF /\ tbl[i].senderId = senderId
           /\ tbl[i].receiverId = receiverId
           /\ tbl[i].isRead = FALSE
        THEN [tbl[i] EXCEPT !.isRead = TRUE]
        ELSE tbl[i]]

\* ------------------------------------------------------------------ tasks
\* A handler suspended at an await.  phase "pending": the store statement
\* is issued and not yet applied; "ok": it is applied and the promise has
\* not yet resumed the handler.
Task(ev, kind, conn, userId, peer, data) ==
    [ev |-> ev, kind |-> kind, conn |-> conn, userId |-> userId,
     peer |-> peer, data |-> data, saved |-> NoRow, resp |-> <<>>,
     phase |-> "pending"]

Applied(t) == [t EXCEPT !.phase = "ok"]

\* A direct call of a storage method and its return value.
Call(op, a, b, rows) == [op |-> op, a |-> a, b |-> b, rows |-> rows]

NoCall == Call("", "", "", <<>>)

\* ------------------------------------------------------------------- Init
\* The server after registerRoutes(): no connection, nobody bound, no handler
\* running; the users table holds the registered users, offline.
InitServer ==
    /\ connectedUsers = <<>>
    /\ readyState = [c \in Conns |-> "CONNECTING"]
    /\ isOnline = [u \in Registered |-> FALSE]
    /\ sessions = {}
    /\ tasks = {}
    /\ nEvents = [c \in Conns \cup {NoConn} |-> 0]
    /\ nConns = 0
    /\ authed = [c \in Conns |-> {}]
    /\ out = <<>>
    /\ nOnline = [u \in Idents |-> 0]
    /\ nOffline = [u \in Idents |-> 0]
    /\ unhandled = 0
    /\ returned = NoCall
    /\ frame = NoFrame
    /\ hook = NoHook
    /\ chat = NoChat

Init ==
    /\ InitServer
    /\ messages = <<>>
    /\ now = 1

\* wss.on('connection') (part_000 lines 244-245): a new socket, OPEN and
\* bound to nobody.
Connect ==
    /\ nConns < MaxConns
    /\ nConns' = nConns + 1
    /\ readyState' = [readyState EXCEPT ![nConns + 1] = "OPEN"]
    /\ out' = <<>>
    /\ hook' = hook
    /\ chat' = chat
    /\ frame' = NoFrame
    /\ UNCHANGED <<connectedUsers, isOnline, messages, now, sessions, tasks,
                   nEvents, authed, nOnline, nOffline, unhandled,
                   returned>>

\* Inbound events so far, over all sources.
RECURSIVE SumUpTo(_, _)
SumUpTo(f, n) == IF n < 0 THEN 0 ELSE f[n] + SumUpTo(f, n - 1)

TotalEvents == SumUpTo(nEvents, MaxConns)

\* An inbound frame on connection c starts the 'message' handler; ev is
\* the frame's number on its connection.
Inbound(c) ==
    /\ readyState[c] = "OPEN"
    /\ TotalEvents < MaxEvents
    /\ nEvents' = [nEvents EXCEPT ![c] = @ + 1]

\* ws.on('message'), type 'auth' (part_000 lines 251-263), up to the await.
FrameAuth(c, userId) ==
    /\ Inbound(c)
    /\ IF userId # NoUser
       THEN /\ connectedUsers' = MapSet(connectedUsers, userId, c)
            /\ tasks' = tasks \cup
                   {Task(nEvents[c] + 1, "auth", c, userId, "", NoData)}
            /\ authed' = [authed EXCEPT ![c] = @ \cup {userId}]
       ELSE UNCHANGED <<connectedUsers, tasks, authed>>
    /\ out' = <<>>
    /\ hook' = hook
    /\ chat' = chat
    /\ frame' = Frame(c, "auth", userId, NoPayload, FALSE)
    /\ UNCHANGED <<readyState, isOnline, messages, now, sessions, nConns,
                   nOnline, nOffline, unhandled,
                   returned>>

\* The chat_message payloads clients send in this model: a valid text
\* message, a valid image message, one with empty content, and one to an
\* identity that has no users row.
ChatPayloads ==
    { Payload("A", "B", "hi", {"text"}, {}),
      Payload("B", "A", "pic", {"image"}, {"u.png"}),
      Payload("A", "B", "", {"text"}, {}),
      Payload("A", Stranger, "yo", {}, {}) }

\* ws.on('message'), type 'chat_message' (part_000 lines 264-266), up to
\* the await: messageSchema.parse throws on an invalid payload and the
\* catch (lines 309-311) logs it.
FrameChat(c, d) ==
    /\ Inbound(c)
    /\ IF messageSchemaAccepts(d)
       THEN tasks' = tasks \cup
                {Task(nEvents[c] + 1, "chat", c, "", "", messageSchemaParse(d))}
       ELSE UNCHANGED tasks
    /\ out' = <<>>
    /\ hook' = hook
    /\ chat' = chat
    /\ frame' = Frame(c, "chat_message", "", d, FALSE)
    /\ UNCHANGED <<connectedUsers, readyState, isOnline, messages, now,
                   sessions, nConns, authed, nOnline, nOffline, unhandled,
                   returned>>

\* ws.on('message'), type 'update_last_seen' (part_000 lines 284-288), up to
\* the await.
FrameUpdateLastSeen(c, userId) ==
    /\ Inbound(c)
    /\ IF userId # NoUser
       THEN tasks' = tasks \cup
                {Task(nEvents[c] + 1, "update_last_seen", c, userId, "", NoData)}
       ELSE UNCHANGED tasks
    /\ out' = <<>>
    /\ hook' = hook
    /\ chat' = chat
    /\ frame' = Frame(c, "update_last_seen", userId, NoPayload, FALSE)
    /\ UNCHANGED <<connectedUsers, readyState, isOnline, messages, now,
                   sessions, nConns, authed, nOnline, nOffline, unhandled,
                   returned>>

\* The typing frames clients send in this model.
TypingFrames ==
    { [senderId |-> "A", receiverId |-> "B", isTyping |-> TRUE],
      [senderId |-> "A", receiverId |-> "B", isTyping |-> FALSE] }

\* A relay that forwards "started typing" only.
ForwardTyping_OnlyStart(c, ev, m) ==
    LET recipientWs == MapGet(connectedUsers, m.receiverId)
    IN  IF recipientWs # NoConn /\ readyState[recipientWs] = "OPEN" /\ m.isTyping
        THEN <<Send(c, ev, recipientWs,
                    WsEvent("typing", "", m.senderId, m.isTyping, NoMessage))>>
        ELSE <<>>

\* A relay that also echoes the event to the connection that sent it.
ForwardTyping_AlsoEchoes(c, ev, m) ==
    LET recipientWs == MapGet(connectedUsers, m.receiverId)
        event == WsEvent("typing", "", m.senderId, m.isTyping, NoMessage)
    IN  (IF recipientWs # NoConn /\ readyState[recipientWs] = "OPEN"
         THEN <<Send(c, ev, recipientWs, event)>>
         ELSE <<>>)
        \o <<Send(c, ev, c, event)>>

\* "Forward typing indicator" (part_000 lines 299-307).
ForwardTyping(c, ev, m) ==
    LET recipientWs == MapGet(connectedUsers, m.receiverId)
    IN  IF recipientWs # NoConn /\ readyState[recipientWs] = "OPEN"
        THEN <<Send(c, ev, recipientWs,
                    WsEvent("typing", "", m.senderId, m.isTyping, NoMessage))>>
        ELSE <<>>

\* ws.on('message'), type 'typing' (part_000 lines 298-308): no await.
FrameTyping(c, m) ==
    /\ Inbound(c)
    /\ out' = ForwardTyping(c, nEvents[c] + 1, m)
    /\ hook' = hook
    /\ chat' = chat
    /\ frame' = Frame(c, "typing", "",
                    Payload(m.senderId, m.receiverId, "", {}, {}), m.isTyping)
    /\ UNCHANGED <<connectedUsers, readyState, isOnline, messages, now,
                   sessions, tasks, nConns, authed, nOnline, nOffline,
                   unhandled, returned>>

\* ws.on('message') on a frame JSON.parse rejects, or of a type no branch
\* handles (part_000 lines 249, 309-311): logged, nothing else.
FrameMalformed(c) ==
    /\ Inbound(c)
    /\ out' = <<>>
    /\ hook' = hook
    /\ chat' = chat
    /\ frame' = Frame(c, "unparseable", "", NoPayload, FALSE)
    /\ UNCHANGED <<connectedUsers, readyState, isOnline, messages, now,
                   sessions, tasks, nConns, authed, nOnline, nOffline,
                   unhandled, returned>>

\* A close handler that looks its socket's user up by the identity the
\* socket authenticated as, not by the socket the registry holds.
FirstBoundTo_ByIdentity(m, c) ==
    IF \E i \in DOMAIN m : m[i].userId \in authed[c]
    THEN m[CHOOSE i \in DOMAIN m :
               /\ m[i].userId \in authed[c]
               /\ \A j \in DOMAIN m : m[j].userId \in authed[c] => i <= j].userId
    ELSE NoUser

\* The first identity, in map order, bound to socket c; NoUser if none.
FirstBoundTo(m, c) ==
    IF \E i \in DOMAIN m : m[i].ws = c
    THEN m[CHOOSE i \in DOMAIN m :
               /\ m[i].ws = c
               /\ \A j \in DOMAIN m : m[j].ws = c => i <= j].userId
    ELSE NoUser

\* ws.on('close') (part_000 lines 314-329), up to the await: the loop stops
\* at the first entry whose socket is this one.
Close(c) ==
    /\ readyState[c] = "OPEN"
    /\ readyState' = [readyState EXCEPT ![c] = "CLOSED"]
    /\ LET userId == FirstBoundTo(connectedUsers, c)
       IN  IF userId # NoUser
           THEN /\ connectedUsers' = MapDelete(connectedUsers, userId)
                /\ tasks' = tasks \cup
                       {Task(nEvents[c] + 1, "close", c, userId, "", NoData)}
           ELSE UNCHANGED <<connectedUsers, tasks>>
    /\ out' = <<>>
    /\ hook' = hook
    /\ chat' = chat
    /\ frame' = NoFrame
    /\ UNCHANGED <<isOnline, messages, now, sessions, nEvents, nConns,
                   authed, nOnline, nOffline, unhandled,
                   returned>>

\* An HTTP request starts its route handler.
Request ==
    /\ TotalEvents < MaxEvents
    /\ nEvents' = [nEvents EXCEPT ![NoConn] = @ + 1]

\* POST /api/auth/login with valid credentials (part_000 lines 95-110), up
\* to the await of updateUserOnlineStatus.
Login(u) ==
    /\ Request
    /\ tasks' = tasks \cup {Task(nEvents[NoConn] + 1, "login", NoConn, u, "", NoData)}
    /\ out' = <<>>
    /\ hook' = hook
    /\ chat' = chat
    /\ frame' = NoFrame
    /\ UNCHANGED <<connectedUsers, readyState, isOnline, messages, now,
                   sessions, nConns, authed, nOnline, nOffline, unhandled,
                   returned>>

\* POST /api/auth/logout (part_000 lines 123-126) behind requireAuth
\* (lines 62-68), up to the await.
Logout(u) ==
    /\ Request
    /\ u \in sessions
    /\ tasks' = tasks \cup {Task(nEvents[NoConn] + 1, "logout", NoConn, u, "", NoData)}
    /\ out' = <<>>
    /\ hook' = hook
    /\ chat' = chat
    /\ frame' = NoFrame
    /\ UNCHANGED <<connectedUsers, readyState, isOnline, messages, now,
                   sessions, nConns, authed, nOnline, nOffline, unhandled,
                   returned>>

\* GET /api/chat/messages/:userId (part_000 lines 219-222) behind
\* requireAuth, up to the await of getMessagesBetweenUsers.
GetMessages(u, peer) ==
    /\ Request
    /\ u \in sessions
    /\ tasks' = tasks \cup
           {Task(nEvents[NoConn] + 1, "get_messages", NoConn, u, peer, NoData)}
    /\ out' = <<>>
    /\ hook' = hook
    /\ chat' = chat
    /\ frame' = NoFrame
    /\ UNCHANGED <<connectedUsers, readyState, isOnline, messages, now,
                   sessions, nConns, authed, nOnline, nOffline, unhandled,
                   returned>>

\* ------------------------------------------------- the store's statements
\* Every handler passing isOnline = true.
OnlineArgument_AlwaysTrue(kind) == TRUE

\* The isOnline argument each handler passes to updateUserOnlineStatus
\* (part_000 lines 110, 126, 256, 288, 319).
OnlineArgument(kind) == kind \in {"auth", "update_last_seen", "login"}

Pending(t, kinds) == t \in tasks /\ t.kind \in kinds /\ t.phase = "pending"

Resumable(t, kind) == t \in tasks /\ t.kind = kind /\ t.phase = "ok"

\* The store applies a handler's updateUserOnlineStatus.
StoreUpdateOnlineStatus(t) ==
    /\ Pending(t, {"auth", "update_last_seen", "login", "logout", "close"})
    /\ isOnline' = updateUserOnlineStatus(isOnline, t.userId,
                                          OnlineArgument(t.kind))
    /\ tasks' = (tasks \ {t}) \cup {Applied(t)}
    /\ out' = <<>>
    /\ hook' = hook
    /\ chat' = chat
    /\ frame' = NoFrame
    /\ UNCHANGED <<connectedUsers, readyState, messages, now, sessions,
                   nEvents, nConns, authed, nOnline, nOffline, unhandled,
                   returned>>

\* The store applies a handler's createMessage; its clock advances between
\* two inserts.
StoreCreateMessage(t) ==
    /\ Pending(t, {"chat"})
    /\ ForeignKeysHold(t.data)
    /\ now' = now + 1
    /\ LET newMessage == createMessage(messages, t.data, now)
       IN  /\ messages' = Append(messages, newMessage)
           /\ tasks' = (tasks \ {t}) \cup
                  {[Applied(t) EXCEPT !.saved = newMessage]}
    /\ out' = <<>>
    /\ hook' = hook
    /\ chat' = chat
    /\ frame' = NoFrame
    /\ UNCHANGED <<connectedUsers, readyState, isOnline, sessions, nEvents,
                   nConns, authed, nOnline, nOffline, unhandled,
                   returned>>

\* The store answers a handler's getMessagesBetweenUsers (default limit).
StoreGetMessagesBetweenUsers(t) ==
    /\ Pending(t, {"get_messages"})
    /\ tasks' = (tasks \ {t}) \cup
           {[Applied(t) EXCEPT
                !.resp = getMessagesBetweenUsers(messages, t.userId, t.peer,
                                                 DefaultLimit)]}
    /\ out' = <<>>
    /\ hook' = hook
    /\ chat' = chat
    /\ frame' = NoFrame
    /\ UNCHANGED <<connectedUsers, readyState, isOnline, messages, now,
                   sessions, nEvents, nConns, authed, nOnline, nOffline,
                   unhandled, returned>>

\* The store applies a handler's markMessagesAsRead(peer, user).
StoreMarkMessagesAsRead(t) ==
    /\ t \in tasks /\ t.kind = "get_messages" /\ t.phase = "pending_mark"
    /\ messages' = markMessagesAsRead(messages, t.peer, t.userId)
    /\ tasks' = (tasks \ {t}) \cup {[t EXCEPT !.phase = "ok_mark"]}
    /\ out' = <<>>
    /\ hook' = hook
    /\ chat' = chat
    /\ frame' = NoFrame
    /\ UNCHANGED <<connectedUsers, readyState, isOnline, now, sessions,
                   nEvents, nConns, authed, nOnline, nOffline, unhandled,
                   returned>>

\* A catch that undoes the binding its auth handshake made.
RegistryAfterCatch_RollsBack(t) ==
    IF t.kind = "auth" THEN MapDelete(connectedUsers, t.userId)
    ELSE connectedUsers

\* The registry after a catch block ran (part_000 lines 309-311 and the
\* routes' catches): they log, and touch nothing.
RegistryAfterCatch(t) == connectedUsers

\* An awaited store call rejects (StoreUnavailable; for createMessage also a
\* foreign-key violation).  The 'message' handler's catch (part_000 lines
\* 309-311) and the routes' catches log it; the 'close' handler (lines
\* 314-329) has no catch, so its rejection is unhandled.  A login's session
\* was already assigned (line 109) and is saved with the error response.
AwaitRejects(t) ==
    /\ t \in tasks
    /\ t.phase \in {"pending", "pending_mark"}
    /\ tasks' = tasks \ {t}
    /\ connectedUsers' = RegistryAfterCatch(t)
    /\ unhandled' = IF t.kind = "close" THEN unhandled + 1 ELSE unhandled
    /\ sessions' = IF t.kind = "login" THEN sessions \cup {t.userId}
                   ELSE sessions
    /\ out' = <<>>
    /\ hook' = hook
    /\ chat' = chat
    /\ frame' = NoFrame
    /\ UNCHANGED <<readyState, isOnline, messages, now,
                   nEvents, nConns, authed, nOnline, nOffline, returned>>

\* ----------------------------------------------------- the continuations
\* 'auth' after the await (part_000 lines 258-262).
AuthResume(t) ==
    /\ Resumable(t, "auth")
    /\ tasks' = tasks \ {t}
    /\ out' = broadcastToAll(t.conn, t.ev,
                  WsEvent("user_online", t.userId, "", FALSE, NoMessage))
    /\ nOnline' = [nOnline EXCEPT ![t.userId] = @ + 1]
    /\ hook' = hook
    /\ chat' = chat
    /\ frame' = NoFrame
    /\ UNCHANGED <<connectedUsers, readyState, isOnline, messages, now,
                   sessions, nEvents, nConns, authed, nOffline, unhandled, returned>>

\* A delivery that does not look at the recipient socket's readyState.
SendToRecipient_NoReadyStateCheck(t) ==
    LET recipientWs == MapGet(connectedUsers, t.data.receiverId)
    IN  IF recipientWs # NoConn
        THEN <<Send(t.conn, t.ev, recipientWs,
                    WsEvent("new_message", "", "", FALSE,
                            JSONstringify(t.saved)))>>
        ELSE <<>>

\* "Send to recipient if online" (part_000 lines 268-275).
SendToRecipient(t) ==
    LET recipientWs == MapGet(connectedUsers, t.data.receiverId)
    IN  IF recipientWs # NoConn /\ readyState[recipientWs] = "OPEN"
        THEN <<Send(t.conn, t.ev, recipientWs,
                    WsEvent("new_message", "", "", FALSE,
                            JSONstringify(t.saved)))>>
        ELSE <<>>

\* A confirmation sent only when the recipient was reachable.
SendConfirmation_OnlyIfDelivered(t) ==
    LET recipientWs == MapGet(connectedUsers, t.data.receiverId)
    IN  IF /\ readyState[t.conn] = "OPEN"
           /\ recipientWs # NoConn
           /\ readyState[recipientWs] = "OPEN"
        THEN <<Send(t.conn, t.ev, t.conn,
                    WsEvent("message_sent", "", "", FALSE,
                            JSONstringify(t.saved)))>>
        ELSE <<>>

\* "Send confirmation to sender" (part_000 lines 277-283).
SendConfirmation(t) ==
    IF readyState[t.conn] = "OPEN"
    THEN <<Send(t.conn, t.ev, t.conn,
                WsEvent("message_sent", "", "", FALSE,
                        JSONstringify(t.saved)))>>
    ELSE <<>>

\* 'chat_message' after the await (part_000 lines 268-283).
ChatResume(t) ==
    /\ Resumable(t, "chat")
    /\ tasks' = tasks \ {t}
    /\ out' = SendToRecipient(t) \o SendConfirmation(t)
    /\ hook' = hook
    /\ chat' = chat
    /\ frame' = NoFrame
    /\ UNCHANGED <<connectedUsers, readyState, isOnline, messages, now,
                   sessions, nEvents, nConns, authed, nOnline, nOffline,
                   unhandled, returned>>

\* 'update_last_seen' after the await (part_000 lines 290-296); the event's
\* lastSeen and isOnline: true fields are not modelled.
UpdateLastSeenResume(t) ==
    /\ Resumable(t, "update_last_seen")
    /\ tasks' = tasks \ {t}
    /\ out' = broadcastToAll(t.conn, t.ev,
                  WsEvent("user_status_update", t.userId, "", FALSE, NoMessage))
    /\ hook' = hook
    /\ chat' = chat
    /\ frame' = NoFrame
    /\ UNCHANGED <<connectedUsers, readyState, isOnline, messages, now,
                   sessions, nEvents, nConns, authed, nOnline, nOffline,
                   unhandled, returned>>

\* 'close' after the await (part_000 lines 321-326).
CloseResume(t) ==
    /\ Resumable(t, "close")
    /\ tasks' = tasks \ {t}
    /\ out' = broadcastToAll(t.conn, t.ev,
                  WsEvent("user_offline", t.userId, "", FALSE, NoMessage))
    /\ nOffline' = [nOffline EXCEPT ![t.userId] = @ + 1]
    /\ hook' = hook
    /\ chat' = chat
    /\ frame' = NoFrame
    /\ UNCHANGED <<connectedUsers, readyState, isOnline, messages, now,
                   sessions, nEvents, nConns, authed, nOnline, unhandled, returned>>

\* login after the await (part_000 lines 112-113): the response, with which
\* the session assigned at line 109 is saved.
LoginResume(t) ==
    /\ Resumable(t, "login")
    /\ tasks' = tasks \ {t}
    /\ sessions' = sessions \cup {t.userId}
    /\ out' = <<>>
    /\ hook' = hook
    /\ chat' = chat
    /\ frame' = NoFrame
    /\ UNCHANGED <<connectedUsers, readyState, isOnline, messages, now,
                   nEvents, nConns, authed, nOnline, nOffline, unhandled,
                   returned>>

\* logout after the await (part_000 lines 127-132).
LogoutResume(t) ==
    /\ Resumable(t, "logout")
    /\ tasks' = tasks \ {t}
    /\ connectedUsers' = MapDelete(connectedUsers, t.userId)
    /\ sessions' = sessions \ {t.userId}
    /\ out' = <<>>
    /\ hook' = hook
    /\ chat' = chat
    /\ frame' = NoFrame
    /\ UNCHANGED <<readyState, isOnline, messages, now, nEvents, nConns,
                   authed, nOnline, nOffline, unhandled,
                   returned>>

\* GET messages after its first await (part_000 lines 224-225): issues
\* markMessagesAsRead.
GetMessagesContinue(t) ==
    /\ Resumable(t, "get_messages")
    /\ tasks' = (tasks \ {t}) \cup {[t EXCEPT !.phase = "pending_mark"]}
    /\ out' = <<>>
    /\ hook' = hook
    /\ chat' = chat
    /\ frame' = NoFrame
    /\ UNCHANGED <<connectedUsers, readyState, isOnline, messages, now,
                   sessions, nEvents, nConns, authed, nOnline, nOffline,
                   unhandled, returned>>

\* res.json(messages) (part_000 line 227): the rows read before the mark.
Respond(ev, rows) ==
    [eff |-> "respond", from |-> NoConn, ev |-> ev, to |-> NoConn,
     event |-> WsEvent("", "", "", FALSE, NoMessage),
     body |-> [i \in DOMAIN rows |-> JSONstringify(rows[i])]]

GetMessagesRespond(t) ==
    /\ t \in tasks /\ t.kind = "get_messages" /\ t.phase = "ok_mark"
    /\ tasks' = tasks \ {t}
    /\ out' = <<Respond(t.ev, t.resp)>>
    /\ hook' = hook
    /\ chat' = chat
    /\ frame' = NoFrame
    /\ UNCHANGED <<connectedUsers, readyState, isOnline, messages, now,
                   sessions, nEvents, nConns, authed, nOnline, nOffline,
                   unhandled, returned>>

\* ------------------------------------------------------------------- Next
Next ==
    \/ Connect
    \/ \E c \in Conns : \E userId \in Registered \cup {NoUser} : FrameAuth(c, userId)
    \/ \E c \in Conns : \E d \in ChatPayloads : FrameChat(c, d)
    \/ \E c \in Conns : \E userId \in Registered \cup {NoUser} :
          FrameUpdateLastSeen(c, userId)
    \/ \E c \in Conns : \E m \in TypingFrames : FrameTyping(c, m)
    \/ \E c \in Conns : FrameMalformed(c)
    \/ \E c \in Conns : Close(c)
    \/ \E u \in Registered : Login(u)
    \/ \E u \in Registered : Logout(u)
    \/ \E u \in Registered : \E peer \in Registered \ {u} : GetMessages(u, peer)
    \/ \E t \in tasks : StoreUpdateOnlineStatus(t)
    \/ \E t \in tasks : StoreCreateMessage(t)
    \/ \E t \in tasks : StoreGetMessagesBetweenUsers(t)
    \/ \E t \in tasks : StoreMarkMessagesAsRead(t)
    \/ \E t \in tasks : AwaitRejects(t)
    \/ \E t \in tasks : AuthResume(t)
    \/ \E t \in tasks : ChatResume(t)
    \/ \E t \in tasks : UpdateLastSeenResume(t)
    \/ \E t \in tasks : CloseResume(t)
    \/ \E t \in tasks : LoginResume(t)
    \/ \E t \in tasks : LogoutResume(t)
    \/ \E t \in tasks : GetMessagesContinue(t)
    \/ \E t \in tasks : GetMessagesRespond(t)

Spec == Init /\ [][Next]_vars

\* ------------------------------------------------ the storage layer alone
\* Direct calls of DatabaseStorage on a messages table the program can have
\* built: any short table, and a long conversation between A and B.  Rows
\* of equal created_at come back in heap order: every query scans the same
\* heap with the same plan.
MaxRows == 2
MaxStamp == 2
MaxStored == 50
MaxCalls == 2

RowShapes ==
    [senderId : Registered, receiverId : Registered, isRead : BOOLEAN,
     createdAt : 1..MaxStamp]

StoredRow(i, s, r, isRead, t) ==
    [id |-> i, senderId |-> s, receiverId |-> r, content |-> "m",
     messageType |-> "text", imageUrl |-> {}, isRead |-> isRead,
     createdAt |-> t]

\* Rows committed in heap order f; created_at is the inserting transaction's
\* start time, which need not follow heap order.
ShortTables ==
    { [i \in DOMAIN f |->
          StoredRow(i, f[i].senderId, f[i].receiverId, f[i].isRead,
                    f[i].createdAt)] :
      f \in UNION {[1..n -> RowShapes] : n \in 0..MaxRows} }

\* n messages alternating between A and B, one per clock tick.
Conversation(n) ==
    [i \in 1..n |->
        IF i % 2 = 1 THEN StoredRow(i, "A", "B", FALSE, i)
                     ELSE StoredRow(i, "B", "A", FALSE, i)]

InitStore ==
    /\ InitServer
    /\ \/ messages \in ShortTables /\ now = MaxStamp + 1
       \/ messages = Conversation(MaxStored) /\ now = MaxStored + 1

DirectCall ==
    /\ nEvents[NoConn] < MaxCalls
    /\ nEvents' = [nEvents EXCEPT ![NoConn] = @ + 1]

\* storage.createMessage(message) called directly with a schema-valid
\* message between registered users.
StorageCreateMessage(d) ==
    /\ DirectCall
    /\ messageSchemaAccepts(d)
    /\ ForeignKeysHold(d)
    /\ now' = now + 1
    /\ LET newMessage == createMessage(messages, messageSchemaParse(d), now)
       IN  /\ messages' = Append(messages, newMessage)
           /\ returned' = Call("createMessage", d.senderId, d.receiverId,
                               <<newMessage>>)
    /\ UNCHANGED <<connectedUsers, readyState, isOnline, sessions, tasks,
                   nConns, authed, out, nOnline, nOffline, unhandled,
                   frame, hook, chat>>

\* storage.getMessagesBetweenUsers(userId1, userId2) called directly, with
\* the default limit.
StorageGetMessagesBetweenUsers(userId1, userId2) ==
    /\ DirectCall
    /\ returned' = Call("getMessagesBetweenUsers", userId1, userId2,
                        getMessagesBetweenUsers(messages, userId1, userId2,
                                                DefaultLimit))
    /\ UNCHANGED <<connectedUsers, readyState, isOnline, messages, now,
                   sessions, tasks, nConns, authed, out, nOnline, nOffline,
                   unhandled,
                   frame, hook, chat>>

\* storage.markMessagesAsRead(senderId, receiverId) called directly; it
\* returns nothing.
StorageMarkMessagesAsRead(senderId, receiverId) ==
    /\ DirectCall
    /\ messages' = markMessagesAsRead(messages, senderId, receiverId)
    /\ returned' = Call("markMessagesAsRead", senderId, receiverId, <<>>)
    /\ UNCHANGED <<connectedUsers, readyState, isOnline, now, sessions,
                   tasks, nConns, authed, out, nOnline, nOffline, unhandled,
                   frame, hook, chat>>

\* Messages handed to createMessage: those of the chat frames, and a note
\* a user sends to themself.
StoragePayloads ==
    ChatPayloads \cup {Payload("A", "A", "note", {"text"}, {})}

NextStore ==
    \/ \E d \in StoragePayloads : StorageCreateMessage(d)
    \/ \E userId1 \in Registered : \E userId2 \in Registered :
          StorageGetMessagesBetweenUsers(userId1, userId2)
    \/ \E senderId \in Registered : \E receiverId \in Registered :
          StorageMarkMessagesAsRead(senderId, receiverId)

SpecStore == InitStore /\ [][NextStore]_vars

\* ------------------------------------------------ the schema's boundaries
\* The chat branch alone, fed payloads at the edges of messageSchema, with
\* a store that is available.
\* n copies of the character c.
RECURSIVE Rep(_, _)
Rep(c, n) ==
    IF n = 0 THEN ""
    ELSE IF n % 2 = 0
         THEN LET half == Rep(c, n \div 2) IN half \o half
         ELSE c \o Rep(c, n - 1)

BoundaryLengths == {0, 1, ContentMax, ContentMax + 1}

\* Text messages from A to B at each boundary length, and image messages
\* with and without an imageUrl.
SchemaPayloads ==
    { Payload("A", "B", Rep("x", n), {"text"}, {}) : n \in BoundaryLengths }
    \cup { Payload("B", "A", "pic", {"image"}, {"u.png"}),
           Payload("B", "A", "pic", {"image"}, {}) }

\* The server with its first connection accepted, nobody bound, nothing
\* stored.
InitSchema ==
    /\ connectedUsers = <<>>
    /\ readyState = [c \in Conns |-> IF c = 1 THEN "OPEN" ELSE "CONNECTING"]
    /\ isOnline = [u \in Registered |-> FALSE]
    /\ messages = <<>>
    /\ now = 1
    /\ sessions = {}
    /\ tasks = {}
    /\ nEvents = [c \in Conns \cup {NoConn} |-> 0]
    /\ nConns = 1
    /\ authed = [c \in Conns |-> {}]
    /\ out = <<>>
    /\ nOnline = [u \in Idents |-> 0]
    /\ nOffline = [u \in Idents |-> 0]
    /\ unhandled = 0
    /\ returned = NoCall
    /\ frame = NoFrame
    /\ hook = NoHook
    /\ chat = NoChat

NextSchema ==
    \/ \E c \in Conns : \E d \in SchemaPayloads : FrameChat(c, d)
    \/ \E t \in tasks : StoreCreateMessage(t)
    \/ \E t \in tasks : ChatResume(t)

SpecSchema == InitSchema /\ [][NextSchema]_vars

\* ----------------------------------------------------------- the chat list
\* getUserChatList (storage.ts lines 156-235) called directly on a store
\* with three registered users, while no other statement runs.
ListUsers == {"A", "B", "C"}

\* The users the first query selects: the distinct users rows, other than
\* userId's own, joined to a message that userId sent or received.
chatUsersOf(usersTbl, tbl, userId) ==
    {u \in DOMAIN usersTbl :
        /\ u # userId
        /\ \E i \in DOMAIN tbl :
              /\ (tbl[i].senderId = u \/ tbl[i].receiverId = u)
              /\ (tbl[i].senderId = userId \/ tbl[i].receiverId = userId)}

\* The rows ORDER BY created_at DESC LIMIT 1 may return for the pair: SQL
\* leaves the order of rows of equal created_at open.
lastMessagesOf(tbl, userId, u) ==
    {tbl[i] : i \in {i \in DOMAIN tbl :
        /\ Between(tbl[i], userId, u)
        /\ \A j \in DOMAIN tbl :
              Between(tbl[j], userId, u) => tbl[j].createdAt <= tbl[i].createdAt}}

\* A count that forgets the is_read = false condition.
unreadCountOf_IgnoresIsRead(tbl, userId, u) ==
    Cardinality({i \in DOMAIN tbl :
        /\ tbl[i].senderId = u
        /\ tbl[i].receiverId = userId})

\* unreadMessages.length: the unread rows from u to userId.
unreadCountOf(tbl, userId, u) ==
    Cardinality({i \in DOMAIN tbl :
        /\ tbl[i].senderId = u
        /\ tbl[i].receiverId = userId
        /\ tbl[i].isRead = FALSE})

\* The orders in which a query without ORDER BY may return the set S.
Orders(S) ==
    {f \in [1..Cardinality(S) -> S] :
        \A i, j \in 1..Cardinality(S) : i # j => f[i] # f[j]}

\* A comparator aTime - bTime: oldest conversation first.
Precedes_Ascending(a, b) == a.lastMessage.createdAt <= b.lastMessage.createdAt

\* The comparator bTime - aTime (storage.ts lines 230-234): a stays before b
\* unless b's last message is newer.
Precedes(a, b) == a.lastMessage.createdAt >= b.lastMessage.createdAt

\* Array.prototype.sort, which is stable.
RECURSIVE InsertSorted(_, _)
InsertSorted(sorted, e) ==
    IF sorted = <<>> THEN <<e>>
    ELSE IF Precedes(sorted[Len(sorted)], e)
         THEN Append(sorted, e)
         ELSE Append(InsertSorted(SubSeq(sorted, 1, Len(sorted) - 1), e),
                     sorted[Len(sorted)])

RECURSIVE ArraySort(_)
ArraySort(list) ==
    IF list = <<>> THEN <<>>
    ELSE InsertSorted(ArraySort(SubSeq(list, 1, Len(list) - 1)),
                      list[Len(list)])

\* The value getUserChatList(userId) resolves to when the first query
\* returned the users in the order chatUsers and the last-message query of
\* user u returned last[u].
getUserChatList(tbl, userId, chatUsers, last) ==
    ArraySort([i \in DOMAIN chatUsers |->
                  [user |-> chatUsers[i],
                   lastMessage |-> last[chatUsers[i]],
                   unreadCount |-> unreadCountOf(tbl, userId, chatUsers[i])]])

ListShapes ==
    [senderId : ListUsers, receiverId : ListUsers, isRead : BOOLEAN,
     createdAt : 1..MaxStamp]

\* Any short table over the three users.
ListTables ==
    { [i \in DOMAIN f |->
          StoredRow(i, f[i].senderId, f[i].receiverId, f[i].isRead,
                    f[i].createdAt)] :
      f \in UNION {[1..n -> ListShapes] : n \in 0..MaxRows} }

\* A's inbox after some use: an old unread message from B, a read and an
\* unread message from C, A's newer answer to B, and a message that does
\* not involve A.
Inbox ==
    << StoredRow(1, "B", "A", FALSE, 1),
       StoredRow(2, "C", "A", TRUE, 2),
       StoredRow(3, "B", "C", FALSE, 3),
       StoredRow(4, "C", "A", FALSE, 4),
       StoredRow(5, "A", "B", FALSE, 5) >>

InitChatList ==
    /\ connectedUsers = <<>>
    /\ readyState = [c \in Conns |-> "CONNECTING"]
    /\ isOnline = [u \in ListUsers |-> FALSE]
    /\ \/ messages \in ListTables /\ now = MaxStamp + 1
       \/ messages = Inbox /\ now = Len(Inbox) + 1
    /\ sessions = {}
    /\ tasks = {}
    /\ nEvents = [c \in Conns \cup {NoConn} |-> 0]
    /\ nConns = 0
    /\ authed = [c \in Conns |-> {}]
    /\ out = <<>>
    /\ nOnline = [u \in Idents |-> 0]
    /\ nOffline = [u \in Idents |-> 0]
    /\ unhandled = 0
    /\ returned = NoCall
    /\ frame = NoFrame
    /\ hook = NoHook
    /\ chat = NoChat

\* storage.getUserChatList(userId) called directly.
StorageGetUserChatList(userId) ==
    /\ DirectCall
    /\ LET found == chatUsersOf(isOnline, messages, userId)
       IN  \E chatUsers \in Orders(found) :
           \E last \in [found -> {messages[i] : i \in DOMAIN messages}] :
               /\ \A u \in found : last[u] \in lastMessagesOf(messages, userId, u)
               /\ returned' = Call("getUserChatList", userId, "",
                                   getUserChatList(messages, userId,
                                                   chatUsers, last))
    /\ UNCHANGED <<connectedUsers, readyState, isOnline, messages, now,
                   sessions, tasks, nConns, authed, out, nOnline, nOffline,
                   unhandled, frame, hook, chat>>

NextChatList == \E userId \in ListUsers : StorageGetUserChatList(userId)

SpecChatList == InitChatList /\ [][NextChatList]_vars

\* ------------------------------------------------------- the unread counts
\* getUserChatList, getUnreadMessageCount and the conversation route called
\* one after the other on a store over three users, while nobody sends.
\* getUnreadMessageCount (storage.ts lines 143-154): the unread rows whose
\* receiver is userId, whoever sent them.
getUnreadMessageCount(tbl, userId) ==
    Cardinality({i \in DOMAIN tbl :
        /\ tbl[i].receiverId = userId
        /\ tbl[i].isRead = FALSE})

\* storage.getUnreadMessageCount(userId) called directly; the number it
\* resolves to is returned.rows[1].count.
StorageGetUnreadMessageCount(userId) ==
    /\ DirectCall
    /\ returned' = Call("getUnreadMessageCount", userId, "",
                        <<[count |-> getUnreadMessageCount(messages, userId)]>>)
    /\ UNCHANGED <<connectedUsers, readyState, isOnline, messages, now,
                   sessions, tasks, nConns, authed, out, nOnline, nOffline,
                   unhandled, frame, hook, chat>>

\* GET /api/chat/messages/:userId (part_000 lines 219-232) for the session
\* of user, run to its response with no other statement in between: the
\* conversation is read, the peer's messages to user are marked read, and
\* the rows read are the response.
FetchConversation(user, userId) ==
    /\ DirectCall
    /\ LET rows == getMessagesBetweenUsers(messages, user, userId, DefaultLimit)
       IN  returned' = Call("GET /api/chat/messages", user, userId,
                            [i \in DOMAIN rows |-> JSONstringify(rows[i])])
    /\ messages' = markMessagesAsRead(messages, userId, user)
    /\ UNCHANGED <<connectedUsers, readyState, isOnline, now, sessions,
                   tasks, nConns, authed, out, nOnline, nOffline, unhandled,
                   frame, hook, chat>>

\* Any short table over the three users, one message per clock tick.
UnreadTables ==
    { [i \in DOMAIN f |->
          StoredRow(i, f[i].senderId, f[i].receiverId, f[i].isRead, i)] :
      f \in UNION {[1..n -> [senderId : ListUsers, receiverId : ListUsers,
                             isRead : BOOLEAN]] : n \in 0..MaxRows} }

InitUnread ==
    /\ connectedUsers = <<>>
    /\ readyState = [c \in Conns |-> "CONNECTING"]
    /\ isOnline = [u \in ListUsers |-> FALSE]
    /\ \/ messages \in UnreadTables /\ now = Len(messages) + 1
       \/ messages = Inbox /\ now = Len(Inbox) + 1
    /\ sessions = {}
    /\ tasks = {}
    /\ nEvents = [c \in Conns \cup {NoConn} |-> 0]
    /\ nConns = 0
    /\ authed = [c \in Conns |-> {}]
    /\ out = <<>>
    /\ nOnline = [u \in Idents |-> 0]
    /\ nOffline = [u \in Idents |-> 0]
    /\ unhandled = 0
    /\ returned = NoCall
    /\ frame = NoFrame
    /\ hook = NoHook
    /\ chat = NoChat

\* The users whose sessions make the calls; the tables treat the three
\* users alike.
Callers == {"A", "B"}

NextUnread ==
    \/ \E userId \in Callers : StorageGetUserChatList(userId)
    \/ \E userId \in Callers : StorageGetUnreadMessageCount(userId)
    \/ \E user \in Callers : \E userId \in ListUsers \ {user} :
          FetchConversation(user, userId)

SpecUnread == InitUnread /\ [][NextUnread]_vars

\* ------------------------------------- handshakes naming unknown identities
\* The presence path alone (handshake, close, and the store's writes), with
\* auth frames that name registered identities and an identity that has no
\* users row, and a store that is available.
NextPresence ==
    \/ Connect
    \/ \E c \in Conns : \E userId \in Idents : FrameAuth(c, userId)
    \/ \E c \in Conns : Close(c)
    \/ \E t \in tasks : StoreUpdateOnlineStatus(t)
    \/ \E t \in tasks : AuthResume(t)
    \/ \E t \in tasks : CloseResume(t)

SpecPresence == Init /\ [][NextPresence]_vars

\* ------------------------------------------------- the reconnecting client
\* One browser's useWebSocket hook (part_001) against the server's
\* presence path.  Every connection the server accepts is a socket of this
\* hook.  The 30-second update_last_seen interval and the chat and typing
\* senders are left out.
\* connect() (part_001 lines 21-28), called when the server has accepted
\* n connections: it returns at once without a userId or while
\* wsRef.current is OPEN; otherwise a new socket replaces wsRef.current.
connect(h, n) ==
    IF h.userId = NoUser \/ h.state = "OPEN" THEN h
    ELSE [h EXCEPT !.state = "CONNECTING", !.ws = NoConn, !.seen = n]

\* An onclose that schedules nothing.
onclose_NoReconnect(h) == h

\* ws.onclose (part_001 lines 78-86): schedules connect() in 3 seconds.
onclose(h) == [h EXCEPT !.timer = TRUE]

\* disconnect() (part_001 lines 93-104): clears the pending timeout, closes
\* wsRef.current if there is one, and forgets it.
disconnect(h) ==
    [h EXCEPT !.timer = FALSE,
              !.orphan = @ \/ h.state \in {"CONNECTING", "OPEN"},
              !.state = "NONE",
              !.ws = NoConn]

\* What a step of the hook leaves alone on the server.
ServerUnchanged ==
    /\ out' = <<>>
    /\ frame' = NoFrame
    /\ UNCHANGED <<connectedUsers, readyState, isOnline, messages, now,
                   sessions, tasks, nEvents, nConns, authed, nOnline,
                   nOffline, unhandled, returned, chat>>

\* The effect runs for a component rendered with a userId (part_001 lines
\* 132-134): connect().
HookMount(userId) ==
    /\ hook = NoHook
    /\ chat = NoChat
    /\ hook' = connect([hook EXCEPT !.userId = userId, !.mounted = TRUE],
                       nConns)
    /\ ServerUnchanged

\* ws.onopen (part_001 lines 30-39) of wsRef.current, after the server
\* accepted the socket: sends the auth frame.
HookOnOpen ==
    /\ hook.state = "CONNECTING"
    /\ nConns > hook.seen
    /\ hook' = [hook EXCEPT !.state = "OPEN", !.ws = nConns,
                            !.sent = @ \cup {nConns}]
    /\ ServerUnchanged

\* The socket in wsRef.current closes (the attempt fails, the transport
\* breaks, or the server closed it) and its onclose runs.
HookOnClose ==
    /\ hook.state \in {"CONNECTING", "OPEN"}
    /\ hook' = onclose([hook EXCEPT !.state = "CLOSED"])
    /\ ServerUnchanged

\* The reconnect timeout fires (part_001 lines 83-85): connect().
HookTimer ==
    /\ hook.timer
    /\ hook' = connect([hook EXCEPT !.timer = FALSE], nConns)
    /\ ServerUnchanged

\* The effect's cleanup (part_001 lines 146-149): disconnect().
HookUnmount ==
    /\ hook.mounted
    /\ hook' = disconnect([hook EXCEPT !.mounted = FALSE])
    /\ ServerUnchanged

\* The onclose of a socket that disconnect() closed.
HookOrphanOnClose ==
    /\ hook.orphan
    /\ hook' = onclose([hook EXCEPT !.orphan = FALSE])
    /\ ServerUnchanged

\* The server accepts the socket the hook is connecting.
HookAccepted ==
    /\ hook.state = "CONNECTING"
    /\ nConns = hook.seen
    /\ Connect

\* An auth frame the hook wrote reaches the server.
HookAuthArrives ==
    \E c \in hook.sent :
        /\ hook.userId \notin authed[c]
        /\ FrameAuth(c, hook.userId)

\* The hook learns that the server's end of wsRef.current is closed.
HookOnCloseByPeer ==
    /\ hook.ws # NoConn
    /\ readyState[hook.ws] = "CLOSED"
    /\ HookOnClose

\* The logged-in user whose page renders the hook.
HookUsers == {"A"}

InitClient ==
    /\ connectedUsers = <<>>
    /\ readyState = [c \in Conns |-> "CONNECTING"]
    /\ isOnline = [u \in Registered |-> FALSE]
    /\ messages = <<>>
    /\ now = 1
    /\ sessions = {}
    /\ tasks = {}
    /\ nEvents = [c \in Conns \cup {NoConn} |-> 0]
    /\ nConns = 0
    /\ authed = [c \in Conns |-> {}]
    /\ out = <<>>
    /\ nOnline = [u \in Idents |-> 0]
    /\ nOffline = [u \in Idents |-> 0]
    /\ unhandled = 0
    /\ returned = NoCall
    /\ frame = NoFrame
    /\ hook = NoHook
    /\ chat = NoChat

NextClient ==
    \/ \E userId \in HookUsers : HookMount(userId)
    \/ HookOnOpen
    \/ HookOnClose
    \/ HookTimer
    \/ HookUnmount
    \/ HookOrphanOnClose
    \/ HookAccepted
    \/ HookAuthArrives
    \/ \E c \in Conns : Close(c)
    \/ \E t \in tasks : StoreUpdateOnlineStatus(t)
    \/ \E t \in tasks : AuthResume(t)
    \/ \E t \in tasks : CloseResume(t)

\* Timers fire, a frame written to a connection that stays up arrives, and
\* a socket whose peer closed gets its close event.
SpecClient ==
    /\ InitClient
    /\ [][NextClient]_vars
    /\ WF_vars(HookTimer)
    /\ WF_vars(HookAuthArrives)
    /\ WF_vars(HookOnCloseByPeer)

\* ------------------------------------------------------------ the Chat page
\* One Chat page (Chat.tsx) of a logged-in user whose socket is bound and
\* open, against the store and the chat_message path of the server.  The
\* route GET /api/chat/messages/:userId is taken as one step, its response
\* arriving at once; events sent over the socket arrive later, in order.
\* chatMessages (Chat.tsx lines 50-53): the cached data of the selected
\* user's query key; [] while nobody is selected or the key has no data.
chatMessages(c) ==
    IF \E d \in c.data : d.key = c.selectedUser
    THEN (CHOOSE d \in c.data : d.key = c.selectedUser).rows
    ELSE <<>>

\* The effect of Chat.tsx lines 56-60, run after a render in which
\* chatMessages differs from `before`, its value at the previous render:
\* setMessages(chatMessages), only if chatMessages is not empty.
chatMessagesEffect(before, c) ==
    IF chatMessages(c) # before /\ Len(chatMessages(c)) > 0
    THEN [c EXCEPT !.messages = chatMessages(c)]
    ELSE c

\* handleUserSelect (Chat.tsx lines 91-97): setSelectedUser; the
\* invalidateQueries call makes the key's fetch due.
handleUserSelect(c, chatUser) == [c EXCEPT !.selectedUser = chatUser]

\* ws.onmessage for new_message and message_sent (part_001 lines 41-51):
\* the event's message is appended, whoever it is from or to.
onmessage(c, data) ==
    IF data.type \in {"new_message", "message_sent"} /\ data.message # NoMessage
    THEN [c EXCEPT !.messages = Append(@, data.message)]
    ELSE c

\* The query's data after a response: the key's record is replaced.
setQueryData(c, key, rows) ==
    [c EXCEPT !.data = {d \in @ : d.key # key} \cup {[key |-> key, rows |-> rows]}]

\* What a step of the page or of the chat path leaves alone.
PresenceUnchanged ==
    /\ out' = <<>>
    /\ frame' = NoFrame
    /\ UNCHANGED <<connectedUsers, readyState, isOnline, sessions, tasks,
                   nEvents, nConns, authed, nOnline, nOffline, unhandled,
                   returned, hook>>

\* The user clicks a peer in the sidebar.
ChatSelect(chatUser) ==
    /\ chat.user # NoUser
    /\ chatUser # chat.user
    /\ chat' = chatMessagesEffect(chatMessages(chat),
                                  handleUserSelect(chat, chatUser))
    /\ PresenceUnchanged
    /\ UNCHANGED <<messages, now>>

\* The fetch of the selected user's key: the route (part_000 lines 219-232)
\* reads the conversation, marks the peer's messages read and responds with
\* the rows it read; the response becomes the key's data.
ChatFetched ==
    /\ chat.selectedUser # NoUser
    /\ LET rows == getMessagesBetweenUsers(messages, chat.user,
                                           chat.selectedUser, DefaultLimit)
       IN  chat' = chatMessagesEffect(chatMessages(chat),
                       setQueryData(chat, chat.selectedUser,
                                    [i \in DOMAIN rows |-> JSONstringify(rows[i])]))
    /\ messages' = markMessagesAsRead(messages, chat.selectedUser, chat.user)
    /\ now' = now
    /\ PresenceUnchanged

\* The server handles a chat_message from s to r (part_000 lines 264-283):
\* the row is stored; the page is sent message_sent when its user sent the
\* frame (handleSendMessage, Chat.tsx lines 85-89: to the selected user) and
\* new_message when its user is the receiver.
ChatStored(s, r) ==
    /\ Len(messages) < MaxRows
    /\ s # r
    /\ s = chat.user => r = chat.selectedUser
    /\ LET savedMessage == createMessage(messages, Payload(s, r, "m", {"text"}, {}), now)
           event == WsEvent(IF s = chat.user THEN "message_sent" ELSE "new_message",
                            "", "", FALSE, JSONstringify(savedMessage))
       IN  /\ messages' = Append(messages, savedMessage)
           /\ chat' = IF chat.user \in {s, r}
                      THEN [chat EXCEPT !.inflight = Append(@, event)]
                      ELSE chat
    /\ now' = now + 1
    /\ PresenceUnchanged

\* The oldest event in flight arrives at the page's socket.
ChatOnMessage ==
    /\ chat.inflight # <<>>
    /\ chat' = onmessage([chat EXCEPT !.inflight = Tail(@)], Head(chat.inflight))
    /\ PresenceUnchanged
    /\ UNCHANGED <<messages, now>>

\* A's page just rendered, nobody selected, on an empty store or on A's
\* inbox after some use.
InitChat ==
    /\ connectedUsers = <<>>
    /\ readyState = [c \in Conns |-> "CONNECTING"]
    /\ isOnline = [u \in ListUsers |-> FALSE]
    /\ \/ messages = <<>> /\ now = 1
       \/ messages = Inbox /\ now = Len(Inbox) + 1
    /\ sessions = {"A"}
    /\ tasks = {}
    /\ nEvents = [c \in Conns \cup {NoConn} |-> 0]
    /\ nConns = 0
    /\ authed = [c \in Conns |-> {}]
    /\ out = <<>>
    /\ nOnline = [u \in Idents |-> 0]
    /\ nOffline = [u \in Idents |-> 0]
    /\ unhandled = 0
    /\ returned = NoCall
    /\ frame = NoFrame
    /\ hook = NoHook
    /\ chat = ChatPage("A", NoUser, {}, <<>>, <<>>)

NextChat ==
    \/ \E chatUser \in ListUsers : ChatSelect(chatUser)
    \/ ChatFetched
    \/ \E s \in ListUsers : \E r \in ListUsers : ChatStored(s, r)
    \/ ChatOnMessage

SpecChat == InitChat /\ [][NextChat]_vars

\* ============================================================ observation
\* The sends of one event type among the effects o of a step.
SendsOfType(o, type) ==
    SelectSeq(o, LAMBDA e : e.eff = "send" /\ e.event.type = type)

\* The broadcastToAll calls among the effects o of a step.
BroadcastsIn(o) == SelectSeq(o, LAMBDA e : e.eff = "broadcast")

\* In this step the store applies the statement task t awaits.
AppliedNow(t) ==
    /\ t \in tasks
    /\ t.phase = "pending"
    /\ \E t2 \in tasks' :
          t2.conn = t.conn /\ t2.ev = t.ev /\ t2.kind = t.kind /\ t2.phase = "ok"

\* In this step the handler of task t runs its continuation to the end.
ResumedNow(t, kind) ==
    t \in tasks /\ t.kind = kind /\ t.phase = "ok" /\ t \notin tasks'

\* In this step the store call task t awaits rejects.
RejectedNow(t) ==
    /\ t \in tasks
    /\ t.phase \in {"pending", "pending_mark"}
    /\ \A t2 \in tasks' : ~(t2.conn = t.conn /\ t2.ev = t.ev /\ t2.kind = t.kind)

\* The row task t inserted, as the store holds it now but for is_read, which
\* a conversation fetch may have set since.
AsPersisted(tbl, t) == [tbl[t.saved.id] EXCEPT !.isRead = FALSE]

\* ================================================================= claims
\* C1: every inbound chat_message that passes messageSchema starts one
\* handler; when its createMessage is applied exactly one row is appended to
\* the messages table, carrying the payload's fields, isRead = FALSE and a
\* set createdAt, and no other step adds or removes a row; the message_sent
\* event the handler then sends to the sender's connection carries that row
\* as persisted.
C1_PersistsOnceAndConfirms ==
    [][ /\ \A t \in tasks :
            (t.kind = "chat" /\ AppliedNow(t)) =>
                LET row == messages'[Len(messages')]
                IN  /\ Len(messages') = Len(messages) + 1
                    /\ SubSeq(messages', 1, Len(messages)) = messages
                    /\ row.isRead = FALSE
                    /\ row.createdAt >= 1
                    /\ row.senderId = t.data.senderId
                    /\ row.receiverId = t.data.receiverId
                    /\ row.content = t.data.content
                    /\ row.messageType = t.data.messageType
                    /\ row.imageUrl = t.data.imageUrl
                    /\ \A i \in DOMAIN messages : messages[i].id # row.id
                    /\ \A t2 \in tasks' :
                          (t2.conn = t.conn /\ t2.ev = t.ev) => t2.saved = row
        /\ Len(messages') # Len(messages) =>
              Cardinality({t \in tasks : t.kind = "chat" /\ AppliedNow(t)}) = 1
        /\ \A t \in tasks' \ tasks :
              t.kind = "chat" /\ t.phase = "pending" =>
                  /\ nEvents'[t.conn] = nEvents[t.conn] + 1
                  /\ t.ev = nEvents'[t.conn]
                  /\ Cardinality({t2 \in tasks' \ tasks : t2.kind = "chat"}) = 1
        /\ \A t \in tasks :
              ResumedNow(t, "chat") =>
                  /\ t.saved.id \in DOMAIN messages
                  /\ AsPersisted(messages, t) = t.saved
                  /\ readyState[t.conn] = "OPEN" =>
                        SendsOfType(out', "message_sent") =
                            <<Send(t.conn, t.ev, t.conn,
                                   WsEvent("message_sent", "", "", FALSE,
                                           JSONstringify(AsPersisted(messages, t))))>>
        /\ SendsOfType(out', "message_sent") # <<>> =>
              \E t \in tasks : ResumedNow(t, "chat")
      ]_vars

\* C1's case: a second persisted row is confirmed to its sender.
C1_Witness ==
    /\ Len(messages) >= 2
    /\ \E i \in DOMAIN out :
          /\ out[i].event.type = "message_sent"
          /\ out[i].event.message.id = 2
          /\ out[i].event.message.isRead = FALSE

\* C2: when the handler of a valid chat_message resumes after its insert, if
\* the registry binds receiverId to a connection that is OPEN at that moment,
\* exactly one new_message carrying the row as persisted is sent, to that
\* connection; otherwise no new_message is sent to anyone and nothing is
\* thrown.  No other step sends a new_message.
C2_RecipientDelivery ==
    [][ /\ \A t \in tasks :
            ResumedNow(t, "chat") =>
                IF \E i \in DOMAIN connectedUsers :
                      /\ connectedUsers[i].userId = t.data.receiverId
                      /\ readyState[connectedUsers[i].ws] = "OPEN"
                THEN \E i \in DOMAIN connectedUsers :
                        /\ connectedUsers[i].userId = t.data.receiverId
                        /\ SendsOfType(out', "new_message") =
                             <<Send(t.conn, t.ev, connectedUsers[i].ws,
                                    WsEvent("new_message", "", "", FALSE,
                                            JSONstringify(AsPersisted(messages, t))))>>
                ELSE /\ SendsOfType(out', "new_message") = <<>>
                     /\ unhandled' = unhandled
        /\ SendsOfType(out', "new_message") # <<>> =>
              \E t \in tasks : ResumedNow(t, "chat")
      ]_vars

\* C2's case: a new_message reaches the receiver's bound, open connection.
C2_Witness ==
    \E i \in DOMAIN out :
        /\ out[i].event.type = "new_message"
        /\ out[i].to = MapGet(connectedUsers, out[i].event.message.receiverId)
        /\ out[i].to # out[i].from

\* C3: when the handler of a valid chat_message resumes after its insert and
\* the connection that sent the frame is still OPEN, exactly one message_sent
\* is sent to that connection, whether the receiver is bound, unbound or
\* bound to a closed socket.
C3_ConfirmationAlwaysSent ==
    [][ \A t \in tasks :
            (ResumedNow(t, "chat") /\ readyState[t.conn] = "OPEN") =>
                /\ Len(SendsOfType(out', "message_sent")) = 1
                /\ SendsOfType(out', "message_sent")[1].to = t.conn
                /\ SendsOfType(out', "message_sent")[1].event.message.id = t.saved.id
      ]_vars

\* C3's case: the sender is confirmed although the receiver's binding points
\* at a closed socket and no new_message went out.
C3_Witness ==
    /\ \E i \in DOMAIN out : out[i].event.type = "message_sent"
    /\ \A i \in DOMAIN out : out[i].event.type # "new_message"
    /\ \E i \in DOMAIN out :
          LET w == MapGet(connectedUsers, out[i].event.message.receiverId)
          IN  w # NoConn /\ readyState[w] = "CLOSED"

\* The connections that ever sent an auth frame naming identity u.
ConnsAuthedAs(u) == {c \in Conns : u \in authed[c]}

UserEvent(type, userId) == WsEvent(type, userId, "", FALSE, NoMessage)

C5_OnlineImpliesBound ==
    \A u \in Registered : isOnline[u] => MapHas(connectedUsers, u)

\* C6: a connection that has sent no auth handshake has none of its frames
\* acted on: no handler of it has had a store statement applied and nothing
\* was sent on its behalf.
C6_UnauthenticatedIgnored ==
    \A c \in Conns :
        authed[c] = {} =>
            /\ \A t \in tasks : t.conn = c => t.phase = "pending"
            /\ \A i \in DOMAIN out : out[i].from # c

\* C7: when a socket closes and the registry holds an entry for it, that
\* step removes the entry the handler finds (the first in map order) and
\* leaves the rest of the registry alone, and starts one handler awaiting
\* updateUserOnlineStatus(identity, false); applying it sets isOnline FALSE
\* and the resumed handler broadcasts user_offline for that identity once.
\* When the registry holds no entry for the socket (its binding is already
\* gone, or it never authenticated), the close changes neither the registry
\* nor the store and sends nothing.  A closed socket stays closed and starts
\* no further close handler.
C7_CloseUnbindsOnce ==
    [][ /\ \A c \in Conns :
            (readyState[c] = "OPEN" /\ readyState'[c] = "CLOSED") =>
                IF \E i \in DOMAIN connectedUsers : connectedUsers[i].ws = c
                THEN \E i \in DOMAIN connectedUsers :
                        /\ connectedUsers[i].ws = c
                        /\ \A j \in 1..(i - 1) : connectedUsers[j].ws # c
                        /\ ~MapHas(connectedUsers', connectedUsers[i].userId)
                        /\ \A u \in Idents \ {connectedUsers[i].userId} :
                              MapGet(connectedUsers', u) = MapGet(connectedUsers, u)
                        /\ \E t \in tasks' :
                              /\ tasks' = tasks \cup {t}
                              /\ t \notin tasks
                              /\ t.kind = "close" /\ t.conn = c
                              /\ t.userId = connectedUsers[i].userId
                              /\ t.phase = "pending"
                        /\ isOnline' = isOnline
                        /\ out' = <<>>
                ELSE /\ connectedUsers' = connectedUsers
                     /\ tasks' = tasks
                     /\ isOnline' = isOnline
                     /\ out' = <<>>
        /\ \A t \in tasks :
            (t.kind = "close" /\ AppliedNow(t)) =>
                /\ isOnline' = [u \in Registered |->
                                  IF u = t.userId THEN FALSE ELSE isOnline[u]]
                /\ connectedUsers' = connectedUsers
                /\ out' = <<>>
        /\ \A t \in tasks :
            ResumedNow(t, "close") =>
                /\ BroadcastsIn(out') =
                      <<Broadcast(t.conn, t.ev, UserEvent("user_offline", t.userId))>>
                /\ connectedUsers' = connectedUsers
                /\ isOnline' = isOnline
        /\ \A c \in Conns :
            readyState[c] = "CLOSED" =>
                /\ readyState'[c] = "CLOSED"
                /\ \A t \in tasks' \ tasks :
                      ~(t.kind = "close" /\ t.conn = c /\ t.phase = "pending")
      ]_vars

\* C7's case: an authenticated connection has closed, its entry is gone, the
\* store says offline and user_offline has just been broadcast to a peer.
C7_Witness ==
    \E i \in DOMAIN out :
        /\ out[i].eff = "send"
        /\ out[i].event.type = "user_offline"
        /\ readyState[out[i].from] = "CLOSED"
        /\ out[i].event.userId \in authed[out[i].from]
        /\ ~MapHas(connectedUsers, out[i].event.userId)
        /\ ~isOnline[out[i].event.userId]

\* C8: on one connection, no effect of a later frame (a store statement
\* applied for it, an event sent for it) happens while the handler of an
\* earlier chat_message of that connection is still suspended on its store
\* write.
C8_EffectsInArrivalOrder ==
    [][ \A c \in Conns : \A earlier \in tasks :
            (earlier.conn = c /\ earlier.kind = "chat") =>
                /\ \A t \in tasks :
                      (t.conn = c /\ AppliedNow(t)) => t.ev <= earlier.ev
                /\ \A i \in DOMAIN out' :
                      out'[i].from = c => out'[i].ev <= earlier.ev
      ]_vars

\* C9: every persisted message between two users is contained in what a
\* later getMessagesBetweenUsers for the two, with its default limit,
\* returns.
C9_PersistedIsRetrievable ==
    returned.op = "getMessagesBetweenUsers" =>
        \A i \in DOMAIN messages :
            Between(messages[i], returned.a, returned.b) =>
                \E j \in DOMAIN returned.rows : returned.rows[j] = messages[i]

\* C10: getMessagesBetweenUsers(a, b) returns rows of the table, each at
\* most once, only rows whose (senderId, receiverId) is (a, b) or (b, a), in
\* ascending createdAt order, and the same sequence as
\* getMessagesBetweenUsers(b, a).
C10_PairOnlySortedSymmetric ==
    returned.op = "getMessagesBetweenUsers" =>
        LET rows == returned.rows
            a == returned.a
            b == returned.b
        IN  /\ \A j \in DOMAIN rows :
                  /\ \E i \in DOMAIN messages : messages[i] = rows[j]
                  /\ \/ (rows[j].senderId = a /\ rows[j].receiverId = b)
                     \/ (rows[j].senderId = b /\ rows[j].receiverId = a)
            /\ \A j, k \in DOMAIN rows :
                  /\ j < k => rows[j].createdAt <= rows[k].createdAt
                  /\ j # k => rows[j].id # rows[k].id
            /\ rows = getMessagesBetweenUsers(messages, b, a, DefaultLimit)

\* C10's case: the result holds messages of both directions, in an order
\* that is not the table's heap order, while the table also holds a row of
\* another pair.
C10_Witness ==
    /\ returned.op = "getMessagesBetweenUsers"
    /\ returned.a # returned.b
    /\ \E j, k \in DOMAIN returned.rows :
          /\ j < k
          /\ returned.rows[j].id > returned.rows[k].id
          /\ returned.rows[j].senderId # returned.rows[k].senderId
    /\ \E i \in DOMAIN messages :
          ~Between(messages[i], returned.a, returned.b)

\* C11: a call markMessagesAsRead(s, r) keeps the table's rows in place,
\* sets isRead on every row from s to r and changes no other row (not the
\* rows from r to s, not the rows of other pairs); it is idempotent: the
\* table it leaves is a fixed point of the same call, and a second
\* identical call right after the first changes nothing.
C11_MarkReadExactAndIdempotent ==
    [][ returned'.op = "markMessagesAsRead" =>
            LET s == returned'.a
                r == returned'.b
            IN  /\ DOMAIN messages' = DOMAIN messages
                /\ \A i \in DOMAIN messages :
                      IF messages[i].senderId = s /\ messages[i].receiverId = r
                      THEN messages'[i] = [messages[i] EXCEPT !.isRead = TRUE]
                      ELSE messages'[i] = messages[i]
                /\ markMessagesAsRead(messages', s, r) = messages'
                /\ returned = returned' => messages' = messages ]_vars

\* C11's case: after markMessagesAsRead(s, r), with s and r different, a
\* message from s to r that createMessage had stored unread is read, while
\* a message from r to s and a message of another pair are still unread.
C11_Witness ==
    /\ returned.op = "markMessagesAsRead"
    /\ returned.a # returned.b
    /\ \E i, j, k \in DOMAIN messages :
          /\ messages[i].senderId = returned.a
          /\ messages[i].receiverId = returned.b
          /\ messages[i].createdAt > MaxStamp
          /\ messages[i].isRead
          /\ messages[j].senderId = returned.b
          /\ messages[j].receiverId = returned.a
          /\ ~messages[j].isRead
          /\ messages[k].senderId = messages[k].receiverId
          /\ ~messages[k].isRead

\* The registry entries of identity u whose socket is OPEN.
LiveBindings(m, rs, u) ==
    {i \in DOMAIN m : m[i].userId = u /\ rs[m[i].ws] = "OPEN"}

\* C12: a typing frame is relayed in the very step that handles it, so
\* before the connection's next frame is handled: when the receiver is bound
\* to an open connection that connection is sent exactly one typing event
\* with the frame's senderId and isTyping, numbered as the frame; when the
\* receiver is not bound (or its socket is not open) nothing is sent to
\* anyone.  No step other than the handling of a typing frame sends a typing
\* event, so typing(A, B, true) followed by typing(A, B, false) reaches B as
\* true, then false.
C12_TypingRelayedInArrivalOrder ==
    [][ /\ frame'.type = "typing" =>
              LET c == frame'.conn
                  live == LiveBindings(connectedUsers, readyState,
                                       frame'.data.receiverId)
              IN  /\ nEvents'[c] = nEvents[c] + 1
                  /\ IF live = {}
                     THEN out' = <<>>
                     ELSE /\ Len(out') = 1
                          /\ out'[1].eff = "send"
                          /\ out'[1].from = c
                          /\ out'[1].ev = nEvents'[c]
                          /\ \E i \in live : out'[1].to = connectedUsers[i].ws
                          /\ out'[1].event =
                                WsEvent("typing", "", frame'.data.senderId,
                                        frame'.isTyping, NoMessage)
                  /\ (frame.type = "typing" /\ frame.conn = c /\ out # <<>>
                      /\ live # {}) =>
                        /\ out'[1].to = out[1].to
                        /\ out'[1].ev = out[1].ev + 1
        /\ SendsOfType(out', "typing") # <<>> => frame'.type = "typing" ]_vars

\* C12's case: a "stopped typing" frame, the second or a later frame of its
\* connection, was relayed by the last step to the receiver's open
\* connection, which is not the sender's.
C12_Witness ==
    /\ frame.type = "typing"
    /\ ~frame.isTyping
    /\ nEvents[frame.conn] >= 2
    /\ Len(out) = 1
    /\ out[1].event.type = "typing"
    /\ out[1].event.isTyping = FALSE
    /\ out[1].to # frame.conn
    /\ readyState[out[1].to] = "OPEN"
    /\ MapGet(connectedUsers, frame.data.receiverId) = out[1].to

\* A frame the server must drop: one it cannot parse, or a chat_message
\* whose content is empty or longer than ContentMax or whose messageType is
\* outside the enumeration.
Dropped(f) ==
    \/ f.type = "unparseable"
    \/ /\ f.type = "chat_message"
       /\ \/ Len(f.data.content) = 0
          \/ Len(f.data.content) > ContentMax
          \/ ~(f.data.messageType \subseteq {"text", "image"})

\* C13: the step that handles a dropped frame persists no message, sends
\* nothing to any connection, starts no handler, leaves the registry, the
\* stored presence and every socket's state as they were, and raises no
\* unhandled error; its connection is still open.  A well-formed
\* chat_message always starts its handler, whatever its connection received
\* before.
C13_MalformedDroppedSilently ==
    [][ /\ Dropped(frame') =>
              /\ messages' = messages
              /\ out' = <<>>
              /\ tasks' = tasks
              /\ connectedUsers' = connectedUsers
              /\ isOnline' = isOnline
              /\ readyState' = readyState
              /\ readyState'[frame'.conn] = "OPEN"
              /\ unhandled' = unhandled
        /\ (frame'.type = "chat_message" /\ ~Dropped(frame')) =>
              \E t \in tasks' \ tasks :
                  /\ t.kind = "chat"
                  /\ t.conn = frame'.conn
                  /\ t.ev = nEvents'[frame'.conn]
                  /\ t.phase = "pending" ]_vars

\* C13's case: the last step handled a chat_message with empty content
\* addressed to a receiver that is bound to an open connection, and nothing
\* was sent or stored.
C13_Witness ==
    /\ frame.type = "chat_message"
    /\ Dropped(frame)
    /\ LiveBindings(connectedUsers, readyState, frame.data.receiverId) # {}
    /\ readyState[frame.conn] = "OPEN"
    /\ out = <<>>
    /\ messages = <<>>

\* C14: a chat_message with a messageType of the enumeration starts its
\* handler exactly when its content has 1 to 1000 characters: content of
\* length 0 is rejected and stores nothing, content of exactly 1000
\* characters is accepted, content of 1001 characters is rejected; and every
\* stored row's content has 1 to 1000 characters.
C14_ContentLengthBoundaries ==
    [][ /\ (frame'.type = "chat_message"
            /\ frame'.data.messageType \subseteq {"text", "image"}) =>
              LET n == Len(frame'.data.content)
                  accepted ==
                      \E t \in tasks' \ tasks :
                          /\ t.kind = "chat"
                          /\ t.data.content = frame'.data.content
              IN  /\ accepted <=> (1 <= n /\ n <= 1000)
                  /\ n = 0 => ~accepted /\ tasks' = tasks
                  /\ n = 1000 => accepted
                  /\ n = 1001 => ~accepted /\ tasks' = tasks
                  /\ messages' = messages
        /\ \A i \in DOMAIN messages' :
              /\ Len(messages'[i].content) >= 1
              /\ Len(messages'[i].content) <= 1000 ]_vars

\* C14's case: a message of exactly 1000 characters is stored, and the last
\* step rejected one of 1001 characters; no stored row is empty.
C14_Witness ==
    /\ \E i \in DOMAIN messages : Len(messages[i].content) = 1000
    /\ frame.type = "chat_message"
    /\ Len(frame.data.content) = 1001
    /\ \A t \in tasks : t.data.content # frame.data.content

\* C15: every stored message of messageType image has an imageUrl (a
\* payload with messageType image and no imageUrl is rejected and stores
\* nothing).
C15_ImageHasImageUrl ==
    \A i \in DOMAIN messages :
        messages[i].messageType = "image" => messages[i].imageUrl # {}

\* The registry entries of identity u.
Bindings(m, u) == {i \in DOMAIN m : m[i].userId = u}

\* C16: the registry never holds two entries for one identity.  The step
\* that handles an auth frame for identity u on connection c leaves exactly
\* one entry for u, bound to c, whatever connection u was bound to before,
\* leaves the entries of the other identities alone, closes no socket and
\* sends nothing.  The binding of an identity changes only so, or to no
\* binding at all; and a new_message goes to the connection the registry
\* binds its receiver to at that moment.
C16_OneBindingLastWins ==
    [][ /\ \A u \in Idents : Cardinality(Bindings(connectedUsers', u)) <= 1
        /\ (frame'.type = "auth" /\ frame'.userId # NoUser) =>
              /\ Cardinality(Bindings(connectedUsers', frame'.userId)) = 1
              /\ MapGet(connectedUsers', frame'.userId) = frame'.conn
              /\ \A u \in Idents \ {frame'.userId} :
                    MapGet(connectedUsers', u) = MapGet(connectedUsers, u)
              /\ readyState' = readyState
              /\ out' = <<>>
        /\ \A u \in Idents :
              MapGet(connectedUsers', u) # MapGet(connectedUsers, u) =>
                  \/ MapGet(connectedUsers', u) = NoConn
                  \/ /\ frame'.type = "auth"
                     /\ frame'.userId = u
                     /\ MapGet(connectedUsers', u) = frame'.conn
        /\ \A i \in DOMAIN out' :
              (out'[i].eff = "send" /\ out'[i].event.type = "new_message") =>
                  out'[i].to =
                      MapGet(connectedUsers', out'[i].event.message.receiverId)
      ]_vars

\* C16's case: the last step handled an auth frame for an identity that
\* another connection, still open, had registered before; nobody logged
\* out, so that connection was bound until an auth frame replaced it.
C16_Witness ==
    /\ frame.type = "auth"
    /\ frame.userId # NoUser
    /\ sessions = {}
    /\ \A t \in tasks : t.kind # "logout"
    /\ \E c0 \in Conns \ {frame.conn} :
          /\ frame.userId \in authed[c0]
          /\ readyState[c0] = "OPEN"
    /\ MapGet(connectedUsers, frame.userId) = frame.conn

\* The registry entries whose socket is OPEN.
OpenEntries(m, rs) == {i \in DOMAIN m : rs[m[i].ws] = "OPEN"}

\* C17: a step that calls broadcastToAll(event) calls it once and sends
\* that event, and nothing else, once per registry entry whose socket is
\* OPEN at that moment: the connections sent to are exactly the bound and
\* open ones.  An entry whose socket is not OPEN is skipped, the entries
\* after it are still served, and the call raises nothing.
C17_BroadcastReachesBoundAndOpen ==
    [][ BroadcastsIn(out') # <<>> =>
            LET sends == SelectSeq(out', LAMBDA e : e.eff = "send")
                open == OpenEntries(connectedUsers', readyState')
            IN  /\ Len(BroadcastsIn(out')) = 1
                /\ out'[1].eff = "broadcast"
                /\ Len(out') = 1 + Len(sends)
                /\ \A i \in DOMAIN sends : sends[i].event = out'[1].event
                /\ {sends[i].to : i \in DOMAIN sends} =
                       {connectedUsers'[i].ws : i \in open}
                /\ Len(sends) = Cardinality(open)
                /\ connectedUsers' = connectedUsers
                /\ readyState' = readyState
                /\ unhandled' = unhandled ]_vars

\* C17's case: a broadcast whose fan-out met an entry with a closed socket
\* and served an open connection bound after it in the registry.
C17_Witness ==
    /\ BroadcastsIn(out) # <<>>
    /\ \E i, j \in DOMAIN connectedUsers :
          /\ i < j
          /\ readyState[connectedUsers[i].ws] = "CLOSED"
          /\ readyState[connectedUsers[j].ws] = "OPEN"
          /\ \E k \in DOMAIN out :
                out[k].eff = "send" /\ out[k].to = connectedUsers[j].ws

\* C18: when the presence write of an auth handshake fails, the step that
\* handles the failure ends the handler and changes nothing else: the
\* binding the handshake made stays, nothing is broadcast or sent (so no
\* user_online for it, then or later), no socket changes state and no error
\* is left unhandled.  Whenever the presence write of a later auth or
\* update_last_seen for a registered identity is applied, the stored
\* isOnline of that identity is TRUE.
C18_FailedPresenceWriteKeepsBinding ==
    [][ \A t \in tasks :
          /\ (RejectedNow(t) /\ t.kind = "auth") =>
                /\ tasks' = tasks \ {t}
                /\ connectedUsers' = connectedUsers
                /\ out' = <<>>
                /\ nOnline' = nOnline
                /\ isOnline' = isOnline
                /\ readyState' = readyState
                /\ unhandled' = unhandled
          /\ (AppliedNow(t) /\ t.kind \in {"auth", "update_last_seen"}
              /\ t.userId \in Registered) =>
                isOnline'[t.userId] = TRUE ]_vars

\* C18's case: every auth handshake for an identity failed at its presence
\* write (none is running, none has broadcast user_online, nobody logged
\* in), the binding is still there on an open connection, and a later
\* update_last_seen has set the stored isOnline.
C18_Witness ==
    \E c \in Conns : \E u \in Registered :
        /\ u \in authed[c]
        /\ MapGet(connectedUsers, u) = c
        /\ readyState[c] = "OPEN"
        /\ \A t \in tasks : t.kind \notin {"auth", "login", "logout"}
        /\ nOnline[u] = 0
        /\ sessions = {}
        /\ isOnline[u]

\* C19: an auth handshake for an identity that is already bound to the
\* same connection leaves the registry as it is, and its presence write,
\* applied while the stored isOnline is already TRUE, leaves the store as it
\* is; yet every handshake that resumes calls broadcastToAll once with
\* user_online for its identity, also when one was broadcast before.
C19_DuplicateAuthIdempotentNotDeduplicated ==
    [][ /\ (/\ frame'.type = "auth"
            /\ frame'.userId # NoUser
            /\ MapGet(connectedUsers, frame'.userId) = frame'.conn) =>
                connectedUsers' = connectedUsers
        /\ \A t \in tasks :
              /\ (AppliedNow(t) /\ t.kind = "auth" /\ t.userId \in Registered
                  /\ isOnline[t.userId]) =>
                    isOnline' = isOnline
              /\ ResumedNow(t, "auth") =>
                    /\ Len(BroadcastsIn(out')) = 1
                    /\ out'[1] = Broadcast(t.conn, t.ev,
                                           UserEvent("user_online", t.userId))
                    /\ nOnline'[t.userId] = nOnline[t.userId] + 1 ]_vars

\* C19's case: the last step broadcast the second user_online of an
\* identity that only one connection ever registered, and the registry and
\* the store are as after one handshake: one entry, isOnline TRUE.
C19_Witness ==
    \E c \in Conns : \E u \in Registered :
        /\ ConnsAuthedAs(u) = {c}
        /\ nOnline[u] = 2
        /\ BroadcastsIn(out) # <<>>
        /\ out[1].event = UserEvent("user_online", u)
        /\ connectedUsers = <<[userId |-> u, ws |-> c]>>
        /\ isOnline[u]

\* C20: no rejection of an awaited store call is ever left unhandled: each
\* one, raised while handling a frame, a request or a connection's close, is
\* caught by its handler.
C20_EveryStoreFailureCaught == unhandled = 0

\* C21: once the close of a connection has been handled (its handler is
\* not suspended any more), no registry entry, under any identity, refers
\* to that connection.
C21_ClosedConnectionUnbound ==
    \A c \in Conns :
        (/\ readyState[c] = "CLOSED"
         /\ \A t \in tasks : ~(t.kind = "close" /\ t.conn = c)) =>
            \A i \in DOMAIN connectedUsers : connectedUsers[i].ws # c

\* C22: a step binds an identity to a connection only while a client holds
\* a valid HTTP session for that identity.
C22_BindingNeedsSession ==
    [][ \A u \in Idents :
            (/\ MapGet(connectedUsers', u) # NoConn
             /\ MapGet(connectedUsers', u) # MapGet(connectedUsers, u)) =>
                u \in sessions ]_vars

\* C23: when the presence write of an auth handshake is applied, the store
\* holds a presence record for the handshake's identity, with isOnline =
\* TRUE, also when it held none before; and no step deletes a presence
\* record.
C23_FirstPresenceUpdateCreatesRecord ==
    [][ /\ \A t \in tasks :
              (t.kind = "auth" /\ AppliedNow(t)) =>
                  /\ t.userId \in DOMAIN isOnline'
                  /\ isOnline'[t.userId] = TRUE
        /\ DOMAIN isOnline \subseteq DOMAIN isOnline' ]_vars

\* C24: getUserChatList(u) returns one entry for each user other than u
\* that sent a message to u or received one from u, and no other entry;
\* each entry's lastMessage is a stored message between the two that no
\* message between the two is newer than, its unreadCount is the number of
\* unread stored messages from that user to u, and the entries are in
\* descending order of lastMessage.createdAt.
C24_ChatListExactLatestUnreadSorted ==
    returned.op = "getUserChatList" =>
        LET u == returned.a
            list == returned.rows
        IN  /\ {list[j].user : j \in DOMAIN list} =
                  {v \in ListUsers \ {u} :
                      \E i \in DOMAIN messages : Between(messages[i], u, v)}
            /\ \A j, k \in DOMAIN list : j # k => list[j].user # list[k].user
            /\ \A j \in DOMAIN list :
                  /\ \E i \in DOMAIN messages : messages[i] = list[j].lastMessage
                  /\ Between(list[j].lastMessage, u, list[j].user)
                  /\ \A i \in DOMAIN messages :
                        Between(messages[i], u, list[j].user) =>
                            messages[i].createdAt <= list[j].lastMessage.createdAt
                  /\ list[j].unreadCount =
                        Cardinality({i \in DOMAIN messages :
                            /\ messages[i].senderId = list[j].user
                            /\ messages[i].receiverId = u
                            /\ ~messages[i].isRead})
            /\ \A j, k \in DOMAIN list :
                  j < k => list[j].lastMessage.createdAt >=
                               list[k].lastMessage.createdAt

\* C24's case: a chat list of two entries whose order is not the order of
\* the users' first messages; the first entry's last message is not the
\* first message of its pair, one entry counts an unread message while a
\* read one from that user exists, and the table holds a message between
\* two other users.
C24_Witness ==
    /\ returned.op = "getUserChatList"
    /\ Len(returned.rows) = 2
    /\ returned.rows[1].lastMessage.createdAt > returned.rows[2].lastMessage.createdAt
    /\ \E i \in DOMAIN messages :
          /\ Between(messages[i], returned.a, returned.rows[1].user)
          /\ messages[i].createdAt < returned.rows[1].lastMessage.createdAt
          /\ \A j \in DOMAIN messages :
                Between(messages[j], returned.a, returned.rows[2].user) =>
                    messages[i].createdAt <= messages[j].createdAt
    /\ \E j \in DOMAIN returned.rows :
          /\ returned.rows[j].unreadCount = 1
          /\ \E i \in DOMAIN messages :
                /\ messages[i].senderId = returned.rows[j].user
                /\ messages[i].receiverId = returned.a
                /\ messages[i].isRead
    /\ \E i \in DOMAIN messages :
          messages[i].senderId # returned.a /\ messages[i].receiverId # returned.a

\* C25: whenever the socket of a mounted hook closes, its onclose schedules
\* a reconnect, and the hook eventually creates a new socket (unless it is
\* unmounted first).  The step in which that socket opens writes an auth
\* frame for the hook's userId to it.  The server's connection for it is
\* one that has handled no frame and named no identity before, and the
\* step that handles the auth frame binds the userId to it; so the auth
\* frame of a socket that has opened is eventually handled, leaving the
\* userId bound to that socket's connection, unless the socket closes or
\* the hook is unmounted first.
C25_ReconnectsAndReauthenticates ==
    /\ [][ /\ (hook.mounted /\ hook'.mounted /\ hook.state # "CLOSED"
               /\ hook'.state = "CLOSED") => hook'.timer
           /\ (hook.state # "OPEN" /\ hook'.state = "OPEN") =>
                 /\ hook.state = "CONNECTING"
                 /\ hook'.ws # NoConn
                 /\ hook'.ws \notin hook.sent
                 /\ hook'.ws \in hook'.sent
                 /\ nEvents[hook'.ws] = 0
                 /\ authed[hook'.ws] = {}
                 /\ \A i \in DOMAIN connectedUsers :
                       connectedUsers[i].ws # hook'.ws
           /\ (frame'.type = "auth" /\ frame'.conn \in hook.sent) =>
                 /\ frame'.userId = hook.userId
                 /\ MapGet(connectedUsers', hook.userId) = frame'.conn
         ]_vars
    /\ (hook.mounted /\ hook.state = "CLOSED") ~>
           (hook.state = "CONNECTING" \/ ~hook.mounted)
    /\ (/\ hook.mounted
        /\ hook.state = "OPEN"
        /\ hook.userId \notin authed[hook.ws]) ~>
           \/ /\ frame.type = "auth"
              /\ frame.conn = hook.ws
              /\ MapGet(connectedUsers, hook.userId) = hook.ws
           \/ hook.state # "OPEN"
           \/ ~hook.mounted

\* C25's case: the hook's first socket was authenticated and has closed on
\* both sides; the hook reconnected, and the server has bound its userId to
\* the second connection.
C25_Witness ==
    /\ hook.mounted
    /\ hook.state = "OPEN"
    /\ hook.ws = 2
    /\ hook.sent = {1, 2}
    /\ readyState[1] = "CLOSED"
    /\ hook.userId \in authed[1]
    /\ MapGet(connectedUsers, hook.userId) = 2

\* C26 as stated: the step that handles a typing frame sends nothing to the
\* sender, that is, to the connection the frame came from when the registry
\* binds the frame's senderId to it.
C26_TypingNeverReachesSender ==
    [][ frame'.type = "typing" =>
            \A i \in DOMAIN out' :
                ~(/\ out'[i].to = frame'.conn
                  /\ MapGet(connectedUsers, frame'.data.senderId) = frame'.conn)
      ]_vars

\* C26 as amended: the step that handles a typing frame writes nothing to
\* the store and starts no handler that could, leaves the registry, the
\* sessions and every socket's state alone and raises nothing; it sends at
\* most one event, a typing event with the frame's senderId and isTyping,
\* to the connection the registry binds receiverId to, and only if that
\* connection is OPEN; when receiverId is unbound or bound to a socket that
\* is not OPEN it sends nothing.  The connection that sent the frame is
\* sent something only when it is itself the connection receiverId is
\* bound to.
C26_TypingOnlyForwards ==
    [][ frame'.type = "typing" =>
            LET recipientWs == MapGet(connectedUsers, frame'.data.receiverId)
            IN  /\ messages' = messages
                /\ isOnline' = isOnline
                /\ now' = now
                /\ tasks' = tasks
                /\ connectedUsers' = connectedUsers
                /\ sessions' = sessions
                /\ readyState' = readyState
                /\ unhandled' = unhandled
                /\ Len(out') <= 1
                /\ \A i \in DOMAIN out' :
                      /\ out'[i].eff = "send"
                      /\ out'[i].to = recipientWs
                      /\ readyState[recipientWs] = "OPEN"
                      /\ out'[i].event =
                            WsEvent("typing", "", frame'.data.senderId,
                                    frame'.isTyping, NoMessage)
                      /\ out'[i].to = frame'.conn =>
                            recipientWs = frame'.conn
                /\ (recipientWs = NoConn \/ readyState[recipientWs] # "OPEN") =>
                      out' = <<>> ]_vars

\* C26's case: the last step handled a typing frame whose receiver is bound
\* to a socket that has closed; nothing was sent, stored or raised, and the
\* binding is still there.
C26_Witness ==
    /\ frame.type = "typing"
    /\ MapGet(connectedUsers, frame.data.receiverId) # NoConn
    /\ readyState[MapGet(connectedUsers, frame.data.receiverId)] = "CLOSED"
    /\ out = <<>>
    /\ messages = <<>>
    /\ unhandled = 0

\* C27: no step removes or reorders a persisted message, and a step changes
\* a persisted message at most by setting its isRead from FALSE to TRUE:
\* isRead never goes back to FALSE and no other column ever changes.
C27_IsReadMonotonicRowsImmutable ==
    [][ /\ Len(messages') >= Len(messages)
        /\ \A i \in DOMAIN messages :
              \/ messages'[i] = messages[i]
              \/ /\ messages[i].isRead = FALSE
                 /\ messages'[i] = [messages[i] EXCEPT !.isRead = TRUE] ]_vars

\* C27's case: a message of a pair was read, and the createMessage that
\* was called last, after another call, stored an unread message of the
\* same sender and receiver after it.
C27_Witness ==
    /\ returned.op = "createMessage"
    /\ nEvents[NoConn] = 2
    /\ \E i \in DOMAIN messages :
          /\ i < Len(messages)
          /\ messages[i].isRead
          /\ messages[i].senderId = returned.a
          /\ messages[i].receiverId = returned.b
    /\ ~messages[Len(messages)].isRead

\* C28: when the createMessage of a chat_message is applied, the connection
\* that submitted the frame has authenticated as the message's senderId (a
\* connection that never named an identity cannot have been bound to it).
C28_SenderIsSubmittersIdentity ==
    [][ \A t \in tasks :
            (t.kind = "chat" /\ AppliedNow(t)) =>
                t.data.senderId \in authed[t.conn] ]_vars

\* Only one connection has been accepted, it authenticated as u and as
\* nobody else, no HTTP request was made, and no close handler's store
\* write has failed.
OnlyConnectionOf(u) ==
    /\ nConns = 1
    /\ nEvents[NoConn] = 0
    /\ authed[1] = {u}
    /\ unhandled = 0

\* C29: when the only connection that ever named U has closed and every
\* handler has completed, the store has isOnline(U) = FALSE and the
\* registry has no binding for U; and once user_offline for U has been
\* broadcast, no step broadcasts user_online or user_status_update for U.
C29_CloseOutlastsInFlightWrites ==
    [][ \A u \in Registered :
          /\ (/\ OnlyConnectionOf(u)'
              /\ readyState'[1] = "CLOSED"
              /\ tasks' = {}) =>
                 /\ isOnline'[u] = FALSE
                 /\ ~MapHas(connectedUsers', u)
          /\ (OnlyConnectionOf(u) /\ nOffline[u] >= 1) =>
                 \A i \in DOMAIN out' :
                     ~(/\ out'[i].eff = "broadcast"
                       /\ out'[i].event.type \in
                              {"user_online", "user_status_update"}
                       /\ out'[i].event.userId = u) ]_vars

\* C30: when the markMessagesAsRead of the only conversation fetch there
\* has been is applied, every message it marks read is contained in the
\* rows that fetch read for its response.
C30_ReadOnlyIfReturned ==
    [][ \A t \in tasks :
            (/\ t.kind = "get_messages"
             /\ t.phase = "pending_mark"
             /\ nEvents[NoConn] = 2
             /\ t.ev = 2
             /\ [t EXCEPT !.phase = "ok_mark"] \in tasks') =>
                \A i \in DOMAIN messages :
                    (~messages[i].isRead /\ messages'[i].isRead) =>
                        \E j \in DOMAIN t.resp : t.resp[j].id = messages[i].id
      ]_vars


\* Connection c authenticated as u and the registry now binds u to another
\* connection: c's binding of u has been superseded.
Superseded(c, u) ==
    /\ u \in authed[c]
    /\ MapGet(connectedUsers, u) \notin {c, NoConn}

C32_UnbindingBroadcastsOffline ==
    \A u \in Registered :
        (/\ nOnline[u] >= 1
         /\ ~MapHas(connectedUsers, u)
         /\ \A c \in Conns : u \in authed[c] => readyState[c] = "CLOSED"
         /\ tasks = {}
         /\ unhandled = 0) =>
            nOffline[u] >= 1


\* C33: once the effect's cleanup has run disconnect(), no step arms the
\* reconnect timer, creates or opens a socket, or writes an auth frame.
C33_NoReconnectAfterDisconnect ==
    [][ (hook # NoHook /\ ~hook.mounted) =>
            /\ ~hook'.timer
            /\ hook'.state \notin {"CONNECTING", "OPEN"}
            /\ hook'.sent = hook.sent ]_vars


\* C34: while a user is selected, every message of the list the page shows
\* is a message between the page's user and the selected user, and no
\* message is in the list twice.
C34_ListIsSelectedConversation ==
    chat.selectedUser # NoUser =>
        /\ \A i \in DOMAIN chat.messages :
              Between(chat.messages[i], chat.user, chat.selectedUser)
        /\ \A i, j \in DOMAIN chat.messages :
              i # j => chat.messages[i].id # chat.messages[j].id


\* The sum of unreadCount over the entries of a chat list.
RECURSIVE SumUnreadCount(_)
SumUnreadCount(list) ==
    IF list = <<>> THEN 0
    ELSE list[Len(list)].unreadCount
         + SumUnreadCount(SubSeq(list, 1, Len(list) - 1))

\* The unread messages user u sent to itself.
UnreadToSelf(tbl, u) ==
    Cardinality({i \in DOMAIN tbl :
        /\ tbl[i].senderId = u
        /\ tbl[i].receiverId = u
        /\ tbl[i].isRead = FALSE})

\* After u fetched its conversation with p, every chat list returned for u
\* gives p's entry the unreadCount 0.
FetchedThenZero(u, p) ==
    [](( /\ returned.op = "GET /api/chat/messages"
         /\ returned.a = u
         /\ returned.b = p) =>
          [](( /\ returned.op = "getUserChatList"
               /\ returned.a = u) =>
                \A j \in DOMAIN returned.rows :
                    returned.rows[j].user = p =>
                        returned.rows[j].unreadCount = 0))

\* C35 as stated: on every store content, the unreadCount of the entries of
\* the chat list returned for u add up to getUnreadMessageCount(u).
C35_ChatListSumIsUnreadCount ==
    returned.op = "getUserChatList" =>
        SumUnreadCount(returned.rows) =
            getUnreadMessageCount(messages, returned.a)

\* C35 as amended: the unreadCount of the entries of the chat list returned
\* for u add up to getUnreadMessageCount(u) less the unread messages u sent
\* to itself, which no entry counts; and once u has fetched its
\* conversation with p, while nobody sends, every chat list returned for u
\* gives p's entry the unreadCount 0.
C35_ChatListSumIsUnreadFromOthers ==
    /\ [](returned.op = "getUserChatList" =>
             SumUnreadCount(returned.rows) =
                 getUnreadMessageCount(messages, returned.a)
                 - UnreadToSelf(messages, returned.a))
    /\ \A u \in Callers : \A p \in ListUsers \ {u} : FetchedThenZero(u, p)

\* C35's case: A's chat list, returned after A fetched a conversation of
\* its inbox that held an unread message for A, has two entries: one with unreadCount 0
\* for the user whose conversation was fetched, who did send A a message,
\* and one that still counts an unread message.
C35_Witness ==
    /\ returned.op = "getUserChatList"
    /\ returned.a = "A"
    /\ nEvents[NoConn] = 2
    /\ Len(messages) = Len(Inbox)
    /\ Len(returned.rows) = 2
    /\ \E j, k \in DOMAIN returned.rows :
          /\ returned.rows[j].unreadCount = 0
          /\ returned.rows[k].unreadCount = 1
          /\ \E i \in DOMAIN messages :
                /\ messages[i].senderId = returned.rows[j].user
                /\ messages[i].receiverId = "A"
                /\ messages[i].isRead
                /\ messages[i].createdAt = 1
          /\ \E i \in DOMAIN messages :
                /\ messages[i].senderId = returned.rows[k].user
                /\ messages[i].receiverId = "A"
                /\ ~messages[i].isRead

====
